---- MODULE Spec2Model ----
(***************************************************************************)
(* State-machine model of the electronic-invoice ingestion pipeline of     *)
(* XMLFATTUREPROCESSOR.  Three generations of the batch script live in     *)
(* the repository and a run executes exactly one of them:                  *)
(*   "v3"      src/processor_v3.py            (archive + prima nota)       *)
(*   "v8"      src/xml_fatture_processor_v8.py (organize_only_advanced)    *)
(*   "legacy"  src/xml_fatture_processor.py   (read_fatture)               *)
(* File names are sequences of one-character strings, so that the regular  *)
(* expressions and pathlib operations are computed character by character. *)
(* Document contents are sequences of tokens, some of them whitespace.     *)
(***************************************************************************)
EXTENDS Integers, Sequences, FiniteSets, TLC

\* ------------------------------------------------------------------------
\* Characters and strings
\* ------------------------------------------------------------------------

\* str.lower() on one character (ASCII letters)
LowerMap ==
  ("A" :> "a") @@ ("B" :> "b") @@ ("C" :> "c") @@ ("D" :> "d") @@ ("E" :> "e") @@
  ("F" :> "f") @@ ("G" :> "g") @@ ("H" :> "h") @@ ("I" :> "i") @@ ("J" :> "j") @@
  ("K" :> "k") @@ ("L" :> "l") @@ ("M" :> "m") @@ ("N" :> "n") @@ ("O" :> "o") @@
  ("P" :> "p") @@ ("Q" :> "q") @@ ("R" :> "r") @@ ("S" :> "s") @@ ("T" :> "t") @@
  ("U" :> "u") @@ ("V" :> "v") @@ ("W" :> "w") @@ ("X" :> "x") @@ ("Y" :> "y") @@
  ("Z" :> "z")

LowerChar(c) == IF c \in DOMAIN LowerMap THEN LowerMap[c] ELSE c

\* str.lower()
Lower(s) == [i \in 1..Len(s) |-> LowerChar(s[i])]

\* s[i:i+len(p)] == p
MatchAt(s, p, i) ==
  /\ i + Len(p) - 1 <= Len(s)
  /\ \A j \in 1..Len(p) : s[i + j - 1] = p[j]

\* re.search of a literal p in s  /  "p in s"
Contains(s, p) == \E i \in 1..Len(s) : MatchAt(s, p, i)

\* s.startswith(p)
StartsWith(s, p) == Len(p) = 0 \/ MatchAt(s, p, 1)

\* s.endswith(p)
EndsWith(s, p) == Len(p) <= Len(s) /\ MatchAt(s, p, Len(s) - Len(p) + 1)

\* str.rfind("."): index of the last dot, 0 when there is none (1-based)
LastDot(s) ==
  LET dots == {i \in 1..Len(s) : s[i] = "."}
  IN  IF dots = {} THEN 0 ELSE CHOOSE i \in dots : \A j \in dots : j <= i

\* pathlib: a leading or a trailing dot does not start a suffix
HasSuffix(s) == LastDot(s) > 1 /\ LastDot(s) < Len(s)

\* Path.suffix
Suffix(s) == IF HasSuffix(s) THEN SubSeq(s, LastDot(s), Len(s)) ELSE <<>>

\* Path.stem
Stem(s) == IF HasSuffix(s) THEN SubSeq(s, 1, LastDot(s) - 1) ELSE s

\* ------------------------------------------------------------------------
\* Document classifier
\* ------------------------------------------------------------------------

\* METADATA_PATTERN = r'(_MT_|[Mm][Ee][Tt][Aa][Dd][Aa][Tt][Oo])'
MT_MARKER == <<"_", "M", "T", "_">>
METADATO == <<"m", "e", "t", "a", "d", "a", "t", "o">>

\* NOTIFICATION_PATTERN = r'_(?:NS|RC|MC|NE|DT|AT|SE)_'
NOTIFICATION_CODES ==
  { <<"N", "S">>, <<"R", "C">>, <<"M", "C">>, <<"N", "E">>,
    <<"D", "T">>, <<"A", "T">>, <<"S", "E">> }

SUPPORTED_EXTENSIONS == { <<".", "x", "m", "l">>, <<".", "p", "7", "m">> }

is_metadata(name) ==
  \/ Contains(name, MT_MARKER)
  \/ Contains(Lower(name), METADATO)

is_notification(name) ==
  \E code \in NOTIFICATION_CODES : Contains(name, <<"_">> \o code \o <<"_">>)

is_supported_file(name) == Lower(Suffix(name)) \in SUPPORTED_EXTENSIONS

\* processor_v3.should_skip: <<skip, file_type>>
should_skip(name) ==
  IF is_metadata(name) THEN <<FALSE, "METADATA">>
  ELSE IF is_notification(name) THEN <<TRUE, "NOTIFICATION">>
  ELSE IF ~is_supported_file(name) THEN <<TRUE, "UNSUPPORTED">>
  ELSE <<FALSE, "INVOICE">>

determine_file_type_notification_first(name) ==
  IF is_notification(name) THEN "NOTIFICATION"
  ELSE IF is_metadata(name) THEN "METADATA"
  ELSE IF is_supported_file(name) THEN "INVOICE"
  ELSE "UNSUPPORTED"

\* xml_fatture_processor_v8.determine_file_type
determine_file_type(name) ==
  IF is_metadata(name) THEN "METADATA"
  ELSE IF is_notification(name) THEN "NOTIFICATION"
  ELSE IF is_supported_file(name) THEN "INVOICE"
  ELSE "UNSUPPORTED"

\* ------------------------------------------------------------------------
\* Input data: XML documents, file contents, the input tree
\* ------------------------------------------------------------------------

\* date.today().year, as the string the code derives from it
CurrentYear == "2026"

\* The element texts of the FatturaPA documents of the model; "" is an
\* absent (or empty) element.  Amounts are in euro cents.
InvoiceDocs ==
  [ i1 |-> [cedente_cf |-> "", cedente_piva |-> "02327190845", cedente_den |-> "Vizzi",
            cessionario_cf |-> "", cessionario_piva |-> "0999", cessionario_den |-> "Rossi",
            data |-> "2024-03-01", numero |-> "1", importo |-> 10000,
            ritenuta |-> TRUE, importo_ritenuta |-> 2000, tipo_ritenuta |-> "RT01"],
    i2 |-> [cedente_cf |-> "", cedente_piva |-> "0999", cedente_den |-> "Rossi",
            cessionario_cf |-> "", cessionario_piva |-> "02327190845", cessionario_den |-> "Vizzi",
            data |-> "2024-05-20", numero |-> "77", importo |-> 5000,
            ritenuta |-> FALSE, importo_ritenuta |-> 0, tipo_ritenuta |-> ""],
    i3 |-> [cedente_cf |-> "02327190845", cedente_piva |-> "0999", cedente_den |-> "Rossi",
            cessionario_cf |-> "", cessionario_piva |-> "0888", cessionario_den |-> "Bianchi",
            data |-> "2024-06-01", numero |-> "5", importo |-> 900,
            ritenuta |-> FALSE, importo_ritenuta |-> 0, tipo_ritenuta |-> ""],
    i4 |-> [cedente_cf |-> "", cedente_piva |-> "02327190845", cedente_den |-> "Vizzi",
            cessionario_cf |-> "", cessionario_piva |-> "02327190845", cessionario_den |-> "Vizzi",
            data |-> "2024-7-9", numero |-> "2", importo |-> 700,
            ritenuta |-> TRUE, importo_ritenuta |-> 300, tipo_ritenuta |-> "RT02"],
    i5 |-> [cedente_cf |-> "02327190845", cedente_piva |-> "", cedente_den |-> "Vizzi",
            cessionario_cf |-> "0777", cessionario_piva |-> "", cessionario_den |-> "Verdi",
            data |-> "", numero |-> "3", importo |-> 2500,
            ritenuta |-> FALSE, importo_ritenuta |-> 0, tipo_ritenuta |-> ""] ]

\* datetime.strptime(s, '%Y-%m-%d').date().year for the date texts above
YearOfDate ==
  [ d \in {"2024-03-01", "2024-05-20", "2024-06-01", "2024-7-9"} |-> "2024" ]

\* datetime.strptime(s, '%Y-%m-%d').date() for the same texts: a date is
\* written in its ISO form, whatever the text it was parsed from
DateOfText ==
  [ d \in DOMAIN YearOfDate |-> IF d = "2024-7-9" THEN "2024-07-09" ELSE d ]

\* date.today()
TodayDate == "2026-11-02"

\* File contents: a prologue token, then the document token, with
\* whitespace tokens anywhere.
PROLOGUE == "<?xml"
IsWhitespace(t) == t \in {" ", "\n"}

Contents ==
  [ x1  |-> <<"<?xml", "i1">>,
    x1w |-> <<"<?xml", "\n", "i1", " ">>,
    x2  |-> <<"<?xml", "i2">>,
    x3  |-> <<"<?xml", "i3">>,
    x4  |-> <<"<?xml", "i4">>,
    x5  |-> <<"<?xml", " ", "i5">>,
    xj  |-> <<"<?xml", "junk">>,
    xm  |-> <<"<?xml", "metadati">>,
    xn  |-> <<"<?xml", "RicevutaConsegna">>,
    xt  |-> <<"note">> ]

\* extract_xml_from_p7m: strategies = [...] in this order
STRATEGIES == <<"Python ASN1", "Windows API", "OpenSSL">>

\* The candidate files.  signed: the bytes are a CMS envelope around the
\* payload.  asn1, win, openssl: what each variant (method, command) of a
\* decoding strategy does on the file's bytes, in the order the code tries
\* them: "xml" output holding the prologue, "noxml" output without it,
\* "raise" an exception; for an openssl command also "timeout", "nonzero"
\* (nonzero exit, nothing usable) and "stderr_xml" (nonzero exit, the
\* document on stderr).  asn1 = <<>>: ContentInfo.load itself raises; an
\* openssl command beyond the listed ones exits nonzero.
Files ==
  [ f01 |-> [dir |-> "d1", name |-> <<"A", ".", "x", "m", "l">>,
             signed |-> FALSE, payload |-> "x1", asn1 |-> <<>>, win |-> <<>>, openssl |-> <<>>],
    f02 |-> [dir |-> "d2", name |-> <<"A", ".", "x", "m", "l">>,
             signed |-> FALSE, payload |-> "x1", asn1 |-> <<>>, win |-> <<>>, openssl |-> <<>>],
    f03 |-> [dir |-> "d1", name |-> <<"B", ".", "x", "m", "l">>,
             signed |-> FALSE, payload |-> "x1w", asn1 |-> <<>>, win |-> <<>>, openssl |-> <<>>],
    f04 |-> [dir |-> "d1", name |-> <<"C", ".", "x", "m", "l">>,
             signed |-> FALSE, payload |-> "x2", asn1 |-> <<>>, win |-> <<>>, openssl |-> <<>>],
    f05 |-> [dir |-> "d1", name |-> <<"D", ".", "x", "m", "l">>,
             signed |-> FALSE, payload |-> "x3", asn1 |-> <<>>, win |-> <<>>, openssl |-> <<>>],
    f06 |-> [dir |-> "d3", name |-> <<"A", ".", "X", "M", "L">>,
             signed |-> FALSE, payload |-> "x4", asn1 |-> <<>>, win |-> <<>>, openssl |-> <<>>],
    f07 |-> [dir |-> "d1", name |-> <<"F", ".", "p", "7", "m">>,
             signed |-> TRUE, payload |-> "x5", asn1 |-> <<"raise", "noxml">>, win |-> <<"xml", "xml">>,
             openssl |-> <<"xml">>],
    f08 |-> [dir |-> "d1", name |-> <<"G", ".", "x", "m", "l">>,
             signed |-> FALSE, payload |-> "xj", asn1 |-> <<>>, win |-> <<>>, openssl |-> <<>>],
    f09 |-> [dir |-> "d1", name |-> <<"K", ".", "p", "7", "m">>,
             signed |-> TRUE, payload |-> "x2",
             asn1 |-> <<"noxml", "noxml">>, win |-> <<"noxml", "noxml">>, openssl |-> <<>>],
    f10 |-> [dir |-> "d1", name |-> <<"A", "_", "M", "T", "_", "1", ".", "x", "m", "l">>,
             signed |-> FALSE, payload |-> "xm", asn1 |-> <<>>, win |-> <<>>, openssl |-> <<>>],
    f11 |-> [dir |-> "d1", name |-> <<"A", "_", "N", "S", "_", "1", ".", "x", "m", "l">>,
             signed |-> FALSE, payload |-> "xn", asn1 |-> <<>>, win |-> <<>>, openssl |-> <<>>],
    f12 |-> [dir |-> "d1", name |-> <<"B", "_", "m", "e", "t", "a", "d", "a", "t", "o", ".", "x", "m", "l">>,
             signed |-> FALSE, payload |-> "xm", asn1 |-> <<>>, win |-> <<>>, openssl |-> <<>>],
    f13 |-> [dir |-> "d1", name |-> <<"A", "_", "R", "C", "_", "M", "e", "t", "a", "D", "a", "t", "o", ".", "x", "m", "l">>,
             signed |-> FALSE, payload |-> "xm", asn1 |-> <<>>, win |-> <<>>, openssl |-> <<>>],
    f14 |-> [dir |-> "d1", name |-> <<"H", ".", "t", "x", "t">>,
             signed |-> FALSE, payload |-> "xt", asn1 |-> <<>>, win |-> <<>>, openssl |-> <<>>],
    f15 |-> [dir |-> "d1", name |-> <<"A", "_", "n", "s", "_", "1", ".", "x", "m", "l">>,
             signed |-> FALSE, payload |-> "xn", asn1 |-> <<>>, win |-> <<>>, openssl |-> <<>>],
    f16 |-> [dir |-> "d1", name |-> <<"S", ".", "p", "7", "m">>,
             signed |-> TRUE, payload |-> "x4",
             asn1 |-> <<>>, win |-> <<"raise", "raise">>,
             openssl |-> <<"timeout", "stderr_xml">>],
    f17 |-> [dir |-> "d1", name |-> <<"P", ".", "p", "7", "m">>,
             signed |-> FALSE, payload |-> "x2",
             asn1 |-> <<>>, win |-> <<"raise", "raise">>, openssl |-> <<>>] ]

FileIds == DOMAIN Files

\* Path.name, Path.stem, Path.suffix, Path.parent of an input file
NameOf(f) == Files[f].name
StemOf(f) == Stem(NameOf(f))
SuffixOf(f) == Suffix(NameOf(f))
ParentOf(f) == Files[f].dir

\* file_path.read_bytes(): the bytes on disk
ReadBytes(f) ==
  IF Files[f].signed THEN <<"p7m-envelope">> \o Contents[Files[f].payload]
  ELSE Contents[Files[f].payload]

\* Number of files in the input tree of a run
MaxInput == 3

\* Number of filesystem failures injected in a run
MaxFailures == 1

\* ------------------------------------------------------------------------
\* Small helpers
\* ------------------------------------------------------------------------

\* d[k] = v on a dict
Put(d, k, v) == [x \in (DOMAIN d) \cup {k} |-> IF x = k THEN v ELSE d[x]]

Last(s) == s[Len(s)]

RECURSIVE SumSeq(_)
\* sum(...) over a list of integers
SumSeq(s) == IF Len(s) = 0 THEN 0 ELSE s[1] + SumSeq(Tail(s))

RECURSIVE SetToSeqs(_)
\* every ordering of a finite set (the orders a directory scan can produce)
SetToSeqs(S) ==
  IF S = {} THEN { <<>> }
  ELSE UNION { { <<x>> \o t : t \in SetToSeqs(S \ {x}) } : x \in S }

\* ------------------------------------------------------------------------
\* processor_v3: parsing
\* ------------------------------------------------------------------------

PORTFOLIO_AZIENDE == [ p \in {"02327190845"} |-> "VIZZI_GIUSEPPE" ]

NoneResult == [tag |-> "None"]

\* xml_content.find('<?xml'): 1-based index of the prologue, 0 if absent
FindPrologue(xml_content) ==
  LET hits == {i \in 1..Len(xml_content) : xml_content[i] = PROLOGUE}
  IN  IF hits = {} THEN 0 ELSE CHOOSE i \in hits : \A j \in hits : i <= j

\* ET.iterparse of clean_xml: the document token when the text after the
\* prologue is one well-formed document, "" when the parser raises.
\* Whitespace between elements does not change the parsed tree.
ParseXml(xml_content) ==
  LET start == FindPrologue(xml_content)
      rest  == IF start = 0 THEN <<>> ELSE SubSeq(xml_content, start + 1, Len(xml_content))
      doc   == SelectSeq(rest, LAMBDA t : ~IsWhitespace(t))
  IN  IF Len(doc) = 1 THEN doc[1] ELSE ""

\* get_text(path) or "N/D"
OrND(text) == IF text = "" THEN "N/D" ELSE text

\* lines 240-242: P.IVA, or the tax code as fallback
ResolveVat(partita_iva, id_fiscale) ==
  IF partita_iva # "N/D" THEN partita_iva ELSE id_fiscale

ResolveDirectionCustomerFirst(sender_vat, receiver_vat) ==
  IF receiver_vat \in DOMAIN PORTFOLIO_AZIENDE
    THEN [azienda_vat |-> receiver_vat, direction |-> "RICEVUTE"]
  ELSE IF sender_vat \in DOMAIN PORTFOLIO_AZIENDE
    THEN [azienda_vat |-> sender_vat, direction |-> "EMESSE"]
  ELSE [azienda_vat |-> "", direction |-> ""]

\* lines 244-252: azienda_vat "" stands for the `return None` branch
ResolveDirection(sender_vat, receiver_vat) ==
  IF sender_vat \in DOMAIN PORTFOLIO_AZIENDE
    THEN [azienda_vat |-> sender_vat, direction |-> "EMESSE"]
  ELSE IF receiver_vat \in DOMAIN PORTFOLIO_AZIENDE
    THEN [azienda_vat |-> receiver_vat, direction |-> "RICEVUTE"]
  ELSE [azienda_vat |-> "", direction |-> ""]

\* parse_invoice_completo: NoneResult for `return None` (not in the
\* portfolio, or any exception), else the FatturaCompleta
parse_invoice_completo(xml_content) ==
  LET tok == ParseXml(xml_content) IN
  IF tok \notin DOMAIN InvoiceDocs THEN NoneResult   \* header is None -> exception
  ELSE
    LET d == InvoiceDocs[tok]
        cedente_id_fiscale == OrND(d.cedente_cf)
        cedente_partita_iva == OrND(d.cedente_piva)
        cessionario_id_fiscale == OrND(d.cessionario_cf)
        cessionario_partita_iva == OrND(d.cessionario_piva)
        sender_vat == ResolveVat(cedente_partita_iva, cedente_id_fiscale)
        receiver_vat == ResolveVat(cessionario_partita_iva, cessionario_id_fiscale)
        r == ResolveDirection(sender_vat, receiver_vat)
    IN
    IF r.azienda_vat = "" THEN NoneResult
    ELSE IF d.data # "" /\ d.data \notin DOMAIN YearOfDate THEN NoneResult  \* strptime raises
    ELSE
      [ tag |-> "Fattura",
        invoice_number |-> OrND(d.numero),
        invoice_date |-> IF d.data = "" THEN TodayDate ELSE DateOfText[d.data],
        invoice_year |-> IF d.data = "" THEN CurrentYear ELSE YearOfDate[d.data],
        total_amount |-> d.importo,
        cedente_denominazione |-> d.cedente_den,
        cedente_id_fiscale |-> cedente_id_fiscale,
        cedente_partita_iva |-> cedente_partita_iva,
        cessionario_denominazione |-> d.cessionario_den,
        cessionario_id_fiscale |-> cessionario_id_fiscale,
        cessionario_partita_iva |-> cessionario_partita_iva,
        has_ritenuta |-> d.ritenuta,
        importo_ritenuta |-> IF d.ritenuta THEN d.importo_ritenuta ELSE 0,
        tipo_ritenuta |-> IF d.ritenuta THEN OrND(d.tipo_ritenuta) ELSE "N/D",
        company_name |-> PORTFOLIO_AZIENDE[r.azienda_vat],
        direction |-> r.direction ]

\* ------------------------------------------------------------------------
\* processor_v3: envelope decoding
\* ------------------------------------------------------------------------

\* what variant k of a strategy does on a file
VariantOutcome(variants, k, default) ==
  IF k <= Len(variants) THEN variants[k] ELSE default

\* text without the prologue
NoXml == <<"bytes">>

\* extract_with_openssl: one command, 30 s timeout; None (<<>>) on a
\* timeout, any other exception, a nonzero exit or output without prologue
extract_with_openssl(f) ==
  IF VariantOutcome(Files[f].openssl, 1, "nonzero") = "xml"
    THEN Contents[Files[f].payload] ELSE <<>>

\* one entry of `strategies` called: the text it returns, raised = TRUE
\* when the call ends in an exception
V3CallStrategy(f, name) ==
  LET o == CASE name = "Python ASN1" -> VariantOutcome(Files[f].asn1, 1, "raise")
             [] name = "Windows API" -> VariantOutcome(Files[f].win, 1, "raise")
             [] OTHER -> "openssl"
  IN  CASE o = "openssl" -> [result |-> extract_with_openssl(f), raised |-> FALSE]
        [] o = "xml" -> [result |-> Contents[Files[f].payload], raised |-> FALSE]
        [] o = "noxml" -> [result |-> NoXml, raised |-> FALSE]
        [] OTHER -> [result |-> <<>>, raised |-> TRUE]

RECURSIVE V3TryAllFrom(_, _, _, _)
V3TryAllFrom(f, i, attempted, best) ==
  IF i > Len(STRATEGIES) THEN [best EXCEPT !.attempted = attempted]
  ELSE
    LET name == STRATEGIES[i]
        r == V3CallStrategy(f, name)
        won == ~r.raised /\ r.result # <<>> /\ FindPrologue(r.result) # 0
    IN  V3TryAllFrom(f, i + 1, Append(attempted, name),
                     IF won THEN [xml |-> r.result, method |-> name, attempted |-> <<>>]
                     ELSE best)

extract_xml_from_p7m_last_wins(f) ==
  V3TryAllFrom(f, 1, <<>>, [xml |-> <<>>, method |-> "FAILED", attempted |-> <<>>])

RECURSIVE V3TryFrom(_, _, _)
\* the loop over `strategies` from entry i on
V3TryFrom(f, i, attempted) ==
  IF i > Len(STRATEGIES) THEN [xml |-> <<>>, method |-> "FAILED", attempted |-> attempted]
  ELSE
    LET name == STRATEGIES[i]
        r == V3CallStrategy(f, name)
    IN  IF ~r.raised /\ r.result # <<>> /\ FindPrologue(r.result) # 0
          THEN [xml |-> r.result, method |-> name, attempted |-> Append(attempted, name)]
          ELSE V3TryFrom(f, i + 1, Append(attempted, name))

\* extract_xml_from_p7m: the first strategy, in order, whose result holds
\* the prologue; <<>> and "FAILED" when none does.  `attempted` lists the
\* strategies called; the function itself returns no list of attempts
extract_xml_from_p7m(f) == V3TryFrom(f, 1, <<>>)

\* ------------------------------------------------------------------------
\* processor_v3: duplicates
\* ------------------------------------------------------------------------

\* calculate_hash: MD5 of the bytes, modelled as the bytes (no collisions)
calculate_hash(f) == ReadBytes(f)

\* re.sub(r'\s+', '', xml_content)
StripWhitespace(xml_content) == SelectSeq(xml_content, LAMBDA t : ~IsWhitespace(t))

\* sha256(normalized)[:16], modelled as the normalized text (no collisions)
calculate_content_hash(xml_content) == StripWhitespace(xml_content)

\* key = f"{file_hash}_{content_hash}"
DupKey(f, xml_content) == <<calculate_hash(f), calculate_content_hash(xml_content)>>

is_duplicate_overwrite(db, f, xml_content, now) ==
  LET key == DupKey(f, xml_content) IN
  [ is_dup |-> key \in DOMAIN db, key |-> key,
    db |-> Put(db, key, [file |-> NameOf(f), processed_at |-> now]) ]

is_duplicate_never(db, f, xml_content, now) ==
  LET key == DupKey(f, xml_content) IN
  [ is_dup |-> FALSE, key |-> key,
    db |-> Put(db, key, [file |-> NameOf(f), processed_at |-> now]) ]

\* is_duplicate on processed_invoices_db = db: the returned pair and the
\* database afterwards
is_duplicate(db, f, xml_content, now) ==
  LET key == DupKey(f, xml_content) IN
  IF key \in DOMAIN db
    THEN [is_dup |-> TRUE, key |-> key, db |-> db]
    ELSE [is_dup |-> FALSE, key |-> key,
          db |-> Put(db, key, [file |-> NameOf(f), processed_at |-> now])]

\* ------------------------------------------------------------------------
\* Per-file values, tabulated once: each depends on the file alone
\* ------------------------------------------------------------------------

\* process_file, lines 485-493: the XML text of a file and the method
ExtractXml(f) ==
  IF Lower(SuffixOf(f)) = <<".", "p", "7", "m">>
    THEN extract_xml_from_p7m(f)
    ELSE [xml |-> ReadBytes(f), method |-> "DIRECT_XML", attempted |-> <<>>]

EXTRACTED == [f \in FileIds |-> ExtractXml(f)]

\* parse_invoice_completo(xml_content) of each file
PARSED == [f \in FileIds |-> parse_invoice_completo(EXTRACTED[f].xml)]

\* should_skip / determine_file_type of each file name
SHOULD_SKIP == [f \in FileIds |-> should_skip(NameOf(f))]
FILE_TYPE == [f \in FileIds |-> determine_file_type(NameOf(f))]

\* file_path.suffix.lower() == '.p7m'
IS_P7M == [f \in FileIds |-> Lower(SuffixOf(f)) = <<".", "p", "7", "m">>]

\* file_path.suffix and is_supported_file(file_path)
SUFFIX == [f \in FileIds |-> SuffixOf(f)]
IS_SUPPORTED == [f \in FileIds |-> is_supported_file(NameOf(f))]

\* ------------------------------------------------------------------------
\* processor_v3: archive layout and prima nota
\* ------------------------------------------------------------------------

\* Points of save_organized_files / update_prima_nota where the filesystem
\* can raise; "none" is a run of the call without failure.
WRITE_STEPS == <<"mkdir", "json", "xml", "orig", "meta", "notif", "ledger_open", "ledger_write">>
\* the failures injected: the first artifact write, and the ledger write
\* before and after open() has truncated the file
FailPoints == {"none", "json", "ledger_open", "ledger_write"}

StepIndex(step) ==
  IF step = "none" THEN Len(WRITE_STEPS) + 1
  ELSE CHOOSE i \in 1..Len(WRITE_STEPS) : WRITE_STEPS[i] = step

\* the position of every write step, and of "none" after them all
STEP_INDEX == [step \in {"none"} \cup {WRITE_STEPS[i] : i \in 1..Len(WRITE_STEPS)} |-> StepIndex(step)]

\* the step ran to completion before the failure (if any) struck
Done(step, fail) == STEP_INDEX[fail] > STEP_INDEX[step]

\* A file written in full, and a file left truncated by a failed write
Complete(data) == [complete |-> TRUE, data |-> data]
Truncated == [complete |-> FALSE]

\* open(path, 'w') + write under the failure `fail`
WriteFile(folder, name, data, step, fail) ==
  IF Done(step, fail) THEN Put(folder, name, Complete(data))
  ELSE IF fail = step THEN Put(folder, name, Truncated)
  ELSE folder

\* YEAR_SUBFOLDERS created empty by create_structure
EmptyDir == [json |-> <<>>, xml_decodificati |-> <<>>, p7m_originali |-> <<>>,
             metadati |-> {}, ricevute |-> {}]

\* create_structure: mkdir(parents=True, exist_ok=True)
create_structure(arch, key) == IF key \in DOMAIN arch THEN arch ELSE Put(arch, key, EmptyDir)

\* safe_filename: re.sub(r'[<>:"/\\|?*]', '_', name)[:200]
safe_filename(name) ==
  LET sub == [i \in 1..Len(name) |->
                IF name[i] \in {"<", ">", ":", "\"", "/", "\\", "|", "?", "*"} THEN "_" ELSE name[i]]
  IN  IF Len(sub) <= 200 THEN sub ELSE SubSeq(sub, 1, 200)

\* base_name = safe_filename(file_path.stem), per file
BASE_NAME == [f \in FileIds |-> safe_filename(StemOf(f))]

find_related_files_any_stem(dirfiles, f) ==
  LET same == {g \in dirfiles : ParentOf(g) = ParentOf(f)}
  IN  [ metadata |-> {g \in same : is_metadata(NameOf(g))},
        notifications |-> {g \in same : ~is_metadata(NameOf(g)) /\ is_notification(NameOf(g))} ]

\* find_related_files: the files of the invoice's directory whose stem
\* starts with the invoice's stem, metadata first, else notification
find_related_files(dirfiles, f) ==
  LET same == {g \in dirfiles : ParentOf(g) = ParentOf(f) /\ StartsWith(StemOf(g), StemOf(f))}
  IN  [ metadata |-> {g \in same : is_metadata(NameOf(g))},
        notifications |-> {g \in same : ~is_metadata(NameOf(g)) /\ is_notification(NameOf(g))} ]

\* find_related_files over the whole tree, per invoice file; the files found
\* in a run are those of them present in the input tree
RELATED == [f \in FileIds |-> find_related_files(FileIds, f)]

RelatedIn(dirfiles, f) ==
  [ metadata |-> RELATED[f].metadata \cap dirfiles,
    notifications |-> RELATED[f].notifications \cap dirfiles ]

\* 'summary' of update_prima_nota, recomputed from the whole list
Summary(invoices, now) ==
  LET n == Len(invoices)
      amounts == [i \in 1..n |-> invoices[i].total_amount]
      withheld == SelectSeq(invoices, LAMBDA inv : inv.has_ritenuta)
  IN  [ total_invoices |-> n,
        total_amount |-> SumSeq(amounts),
        total_ritenute |-> SumSeq([i \in 1..Len(withheld) |-> withheld[i].importo_ritenuta]),
        fatture_con_ritenuta |-> Len(withheld),
        last_updated |-> now ]

\* the ledger created when prima_nota_<year>.json does not exist
NewPrimaNota(key) ==
  [ company |-> key[1], direction |-> key[2], year |-> key[3], invoices |-> <<>>,
    summary |-> [total_invoices |-> 0, total_amount |-> 0,
                 total_ritenute |-> 0, fatture_con_ritenuta |-> 0] ]

\* json.load of the ledger raises on a truncated file
LedgerLoadable(pn, key) == key \notin DOMAIN pn \/ pn[key].complete

\* update_prima_nota: every exception is caught and logged, nothing is
\* returned.  The write is open(path, 'w') followed by json.dump.
update_prima_nota(pn, key, invoice_data, fail, now) ==
  IF ~LedgerLoadable(pn, key) THEN pn
  ELSE
    LET prima_nota == IF key \in DOMAIN pn THEN pn[key].data ELSE NewPrimaNota(key)
        entry == [ id |-> invoice_data.id,
                   invoice_number |-> invoice_data.invoiceNumber,
                   invoice_date |-> invoice_data.invoiceDate,
                   partner_name |-> invoice_data.partner_name,
                   total_amount |-> invoice_data.totalAmount,
                   has_ritenuta |-> invoice_data.has_ritenuta,
                   importo_ritenuta |-> invoice_data.importo_ritenuta,
                   added_at |-> now ]
        invoices == Append(prima_nota.invoices, entry)
        updated == [prima_nota EXCEPT !.invoices = invoices, !.summary = Summary(invoices, now)]
    IN  IF fail = "ledger_open" THEN pn
        ELSE IF fail = "ledger_write" THEN Put(pn, key, Truncated)
        ELSE Put(pn, key, Complete(updated))

\* date.isoformat(): the model writes a date in its ISO form already
isoformat(d) == d

\* a record that files the supplier under "cessionario" and the customer
\* under "cedente"
InvoiceRecordPartiesSwapped(f, fattura, method, related, now) ==
  [ id |-> now,
    fileName |-> NameOf(f),
    company |-> fattura.company_name,
    direction |-> fattura.direction,
    invoiceNumber |-> fattura.invoice_number,
    invoiceDate |-> isoformat(fattura.invoice_date),
    invoiceYear |-> fattura.invoice_year,
    totalAmount |-> fattura.total_amount,
    partner_name |-> IF fattura.direction = "EMESSE" THEN fattura.cessionario_denominazione
                     ELSE fattura.cedente_denominazione,
    partner_vatId |-> IF fattura.direction = "EMESSE" THEN fattura.cessionario_partita_iva
                      ELSE fattura.cedente_partita_iva,
    has_ritenuta |-> fattura.has_ritenuta,
    importo_ritenuta |-> fattura.importo_ritenuta,
    tipo_ritenuta |-> fattura.tipo_ritenuta,
    cedente |-> [ denominazione |-> fattura.cessionario_denominazione,
                  partita_iva |-> fattura.cessionario_partita_iva,
                  codice_fiscale |-> fattura.cessionario_id_fiscale ],
    cessionario |-> [ denominazione |-> fattura.cedente_denominazione,
                      partita_iva |-> fattura.cedente_partita_iva,
                      codice_fiscale |-> fattura.cedente_id_fiscale ],
    method_used |-> method,
    file_hash |-> calculate_hash(f),
    related_metadata |-> {NameOf(g) : g \in related.metadata},
    related_notifications |-> {NameOf(g) : g \in related.notifications} ]

\* the `result` dict of save_organized_files
InvoiceRecord(f, fattura, method, related, now) ==
  [ id |-> now,
    fileName |-> NameOf(f),
    company |-> fattura.company_name,
    direction |-> fattura.direction,
    invoiceNumber |-> fattura.invoice_number,
    invoiceDate |-> isoformat(fattura.invoice_date),
    invoiceYear |-> fattura.invoice_year,
    totalAmount |-> fattura.total_amount,
    partner_name |-> IF fattura.direction = "EMESSE" THEN fattura.cessionario_denominazione
                     ELSE fattura.cedente_denominazione,
    partner_vatId |-> IF fattura.direction = "EMESSE" THEN fattura.cessionario_partita_iva
                      ELSE fattura.cedente_partita_iva,
    has_ritenuta |-> fattura.has_ritenuta,
    importo_ritenuta |-> fattura.importo_ritenuta,
    tipo_ritenuta |-> fattura.tipo_ritenuta,
    cedente |-> [ denominazione |-> fattura.cedente_denominazione,
                  partita_iva |-> fattura.cedente_partita_iva,
                  codice_fiscale |-> fattura.cedente_id_fiscale ],
    cessionario |-> [ denominazione |-> fattura.cessionario_denominazione,
                      partita_iva |-> fattura.cessionario_partita_iva,
                      codice_fiscale |-> fattura.cessionario_id_fiscale ],
    method_used |-> method,
    file_hash |-> calculate_hash(f),
    related_metadata |-> {NameOf(g) : g \in related.metadata},
    related_notifications |-> {NameOf(g) : g \in related.notifications} ]

\* the ledger key / archive directory of a parsed invoice
KeyOf(fattura) == <<fattura.company_name, fattura.direction, fattura.invoice_year>>

\* save_organized_files under the failure `fail`: the returned bool, the
\* archive tree and the ledgers afterwards; `hit` tells whether the call
\* reached the failure point at all
save_organized_files(arch, pn, dirfiles, f, xml_content, fattura, method, fail, now) ==
  LET key == KeyOf(fattura)
      base_name == BASE_NAME[f]
      related == RelatedIn(dirfiles, f)
      result == InvoiceRecord(f, fattura, method, related, now)
      a0 == create_structure(arch, key)
      dir == a0[key]
      newdir ==
        [ json |-> WriteFile(dir.json, base_name, result, "json", fail),
          xml_decodificati |-> WriteFile(dir.xml_decodificati, base_name, xml_content, "xml", fail),
          p7m_originali |->
            IF IS_SUPPORTED[f]
              THEN WriteFile(dir.p7m_originali, base_name \o SUFFIX[f], ReadBytes(f), "orig", fail)
              ELSE dir.p7m_originali,
          metadati |-> IF Done("meta", fail)
                         THEN dir.metadati \cup {NameOf(g) : g \in related.metadata}
                         ELSE dir.metadati,
          ricevute |-> IF Done("notif", fail)
                         THEN dir.ricevute \cup {NameOf(g) : g \in related.notifications}
                         ELSE dir.ricevute ]
      reached ==
        CASE fail = "meta" -> related.metadata # {}
          [] fail = "notif" -> related.notifications # {}
          [] fail \in {"ledger_open", "ledger_write"} -> LedgerLoadable(pn, key)
          [] OTHER -> TRUE
  IN  IF fail = "mkdir" THEN [ok |-> FALSE, archive |-> arch, prima_nota |-> pn, hit |-> TRUE]
      ELSE IF ~Done("notif", fail)
        THEN [ok |-> FALSE, archive |-> [a0 EXCEPT ![key] = newdir], prima_nota |-> pn, hit |-> reached]
      ELSE [ ok |-> TRUE,
             archive |-> [a0 EXCEPT ![key] = newdir],
             prima_nota |-> update_prima_nota(pn, key, result, fail, now),
             hit |-> reached ]

\* ------------------------------------------------------------------------
\* processor_v3: per-file pipeline
\* ------------------------------------------------------------------------

\* ProcessingResult, with the pair returned by is_duplicate kept beside it
\* (dup_called tells whether is_duplicate was called for the file)
Outcome(f, status, method, msg, fattura, dup_called, is_dup) ==
  [ file |-> f, file_name |-> NameOf(f), status |-> status, method_used |-> method,
    error_message |-> msg,
    company_name |-> IF fattura.tag = "Fattura" THEN fattura.company_name ELSE "",
    invoice_year |-> IF fattura.tag = "Fattura" THEN fattura.invoice_year ELSE "",
    direction |-> IF fattura.tag = "Fattura" THEN fattura.direction ELSE "",
    attempted |-> EXTRACTED[f].attempted,
    dup_called |-> dup_called, is_duplicate |-> is_dup ]

\* process_file: the result, and the duplicate database, archive tree and
\* ledgers it leaves
process_file(db, arch, pn, dirfiles, f, fail, now) ==
  LET ext == EXTRACTED[f]
      xml_content == ext.xml
      parse_result == PARSED[f]
      dup == is_duplicate(db, f, xml_content, now)
      same == [db |-> db, archive |-> arch, prima_nota |-> pn]
  IN
  IF ext.method = "FAILED"
    THEN same @@ [hit |-> FALSE,
           result |-> Outcome(f, "KO", "NONE", "Estrazione P7M fallita", NoneResult, FALSE, FALSE)]
  ELSE IF parse_result.tag = "None"
    THEN same @@ [hit |-> FALSE,
           result |-> Outcome(f, "KO", ext.method, "Parsing fallito o fattura non del portfolio",
                              NoneResult, FALSE, FALSE)]
  ELSE IF dup.is_dup
    THEN [ db |-> dup.db, archive |-> arch, prima_nota |-> pn, hit |-> FALSE,
           result |-> Outcome(f, "SKIPPED", ext.method, "Duplicato", parse_result, TRUE, TRUE) ]
  ELSE
    LET saved == CHOOSE r \in {save_organized_files(arch, pn, dirfiles, f, xml_content,
                                                    parse_result, ext.method, fail, now)} : TRUE
    IN  [ db |-> dup.db, archive |-> saved.archive, prima_nota |-> saved.prima_nota,
          hit |-> saved.hit,
          result |-> IF saved.ok
                       THEN Outcome(f, "OK", ext.method, "", parse_result, TRUE, FALSE)
                       ELSE Outcome(f, "KO", ext.method, "Errore salvataggio", parse_result, TRUE, FALSE) ]

\* ------------------------------------------------------------------------
\* xml_fatture_processor_v8: organize_only_advanced
\* ------------------------------------------------------------------------

\* the strategies of decrypt_p7m_file, by the method name it returns
V8_STRATEGIES == <<"ASN1", "WINDOWS_API", "OPENSSL">>

\* platform.system() == "Windows", ASN1_AVAILABLE, WIN32_AVAILABLE: the
\* host of the model is a Windows machine with both libraries installed
PlatformIsWindows == TRUE

\* the two methods of a library strategy, tried in order: the text found
\* and the error messages collected
TwoMethods(variants, label) ==
  LET o1 == VariantOutcome(variants, 1, "raise")
      o2 == VariantOutcome(variants, 2, "raise")
      e1 == IF o1 = "raise" THEN << <<label, "metodo 1">> >> ELSE <<>>
  IN  IF o1 = "xml" THEN [xml |-> "payload", errors |-> <<>>]
      ELSE IF o2 = "xml" THEN [xml |-> "payload", errors |-> e1]
      ELSE IF o2 = "raise" THEN [xml |-> "", errors |-> Append(e1, <<label, "metodo 2">>)]
      ELSE [xml |-> "", errors |-> e1]

\* extract_xml_from_p7m_asn1
extract_xml_from_p7m_asn1(f) ==
  IF Files[f].asn1 = <<>> THEN [xml |-> "", errors |-> << <<"ASN1", "generale">> >>]
  ELSE TwoMethods(Files[f].asn1, "ASN1")

\* extract_xml_from_p7m_windows
extract_xml_from_p7m_windows(f) == TwoMethods(Files[f].win, "Windows API")

\* number of entries of `commands` in extract_xml_from_p7m_openssl
OPENSSL_COMMANDS == 6

RECURSIVE OpensslFrom(_, _, _)
\* the loop over `commands` from command i on
OpensslFrom(f, i, errors) ==
  IF i > OPENSSL_COMMANDS THEN [xml |-> "", errors |-> errors]
  ELSE
    LET o == VariantOutcome(Files[f].openssl, i, "nonzero") IN
    CASE o = "xml" -> [xml |-> "payload", errors |-> errors]          \* exit 0, stdout
      [] o = "stderr_xml" -> [xml |-> "payload", errors |-> errors]   \* stderr is searched too
      [] o = "timeout" -> OpensslFrom(f, i + 1, Append(errors, <<"OpenSSL comando", i, "timeout">>))
      [] o = "raise" -> OpensslFrom(f, i + 1, Append(errors, <<"OpenSSL comando", i, "errore">>))
      [] OTHER -> OpensslFrom(f, i + 1, errors)

\* extract_xml_from_p7m_openssl
extract_xml_from_p7m_openssl(f) == OpensslFrom(f, 1, <<>>)

\* decrypt_p7m_file: success, the decoded text, all_errors and the method;
\* `attempted` lists the strategies called and `produced` every error
\* message a called strategy collected
decrypt_p7m_file(f) ==
  IF ~EndsWith(Lower(NameOf(f)), <<".", "p", "7", "m">>)
    THEN [success |-> FALSE, xml |-> <<>>, errors |-> << <<"Non e un file P7M">> >>,
          method |-> "NONE", attempted |-> <<>>, produced |-> <<>>]
  ELSE
    LET a == extract_xml_from_p7m_asn1(f)
        w == IF PlatformIsWindows THEN extract_xml_from_p7m_windows(f)
             ELSE [xml |-> "", errors |-> <<>>]
        o == extract_xml_from_p7m_openssl(f)
        decoded == Contents[Files[f].payload]
        upto_win == IF PlatformIsWindows THEN <<"ASN1", "WINDOWS_API">> ELSE <<"ASN1">>
    IN  IF a.xml # ""
          THEN [success |-> TRUE, xml |-> decoded, errors |-> <<>>, method |-> "ASN1",
                attempted |-> <<"ASN1">>, produced |-> a.errors]
        ELSE IF w.xml # ""
          THEN [success |-> TRUE, xml |-> decoded, errors |-> a.errors,
                method |-> "WINDOWS_API", attempted |-> upto_win,
                produced |-> a.errors \o w.errors]
        ELSE IF o.xml # ""
          THEN [success |-> TRUE, xml |-> decoded, errors |-> a.errors \o w.errors,
                method |-> "OPENSSL", attempted |-> Append(upto_win, "OPENSSL"),
                produced |-> a.errors \o w.errors \o o.errors]
        ELSE [success |-> FALSE, xml |-> <<>>, errors |-> a.errors \o w.errors \o o.errors,
              method |-> "FAILED", attempted |-> Append(upto_win, "OPENSSL"),
              produced |-> a.errors \o w.errors \o o.errors]

\* process_single_file_advanced, lines 1077-1106
V8ExtractXml(f) ==
  IF Lower(SuffixOf(f)) = <<".", "p", "7", "m">>
    THEN decrypt_p7m_file(f)
    ELSE [success |-> TRUE, xml |-> ReadBytes(f), errors |-> <<>>, method |-> "DIRECT_XML",
          attempted |-> <<>>, produced |-> <<>>]

\* parse_invoice_xml_advanced: no portfolio lookup; an unparseable or
\* missing date leaves the current year
parse_invoice_xml_advanced(xml_content) ==
  LET tok == ParseXml(xml_content) IN
  IF tok \notin DOMAIN InvoiceDocs THEN NoneResult
  ELSE
    LET d == InvoiceDocs[tok] IN
    [ tag |-> "Invoice",
      invoice_number |-> OrND(d.numero),
      invoice_year |-> IF d.data \in DOMAIN YearOfDate THEN YearOfDate[d.data] ELSE CurrentYear,
      total_amount |-> d.importo,
      cedente_partita_iva |-> OrND(d.cedente_piva),
      cedente_id_fiscale |-> OrND(d.cedente_cf),
      cessionario_partita_iva |-> OrND(d.cessionario_piva),
      cessionario_id_fiscale |-> OrND(d.cessionario_cf),
      has_ritenuta |-> d.ritenuta,
      importo_ritenuta |-> IF d.ritenuta THEN d.importo_ritenuta ELSE 0 ]

\* parse_notification_xml: "OK" for any well-formed document
parse_notification_xml(xml_content) ==
  IF ParseXml(xml_content) = "" THEN [status |-> "ERROR"]
  ELSE [status |-> "OK", tipo_notifica |-> ParseXml(xml_content)]

V8_EXTRACTED == [f \in FileIds |-> V8ExtractXml(f)]
V8_INVOICE == [f \in FileIds |-> parse_invoice_xml_advanced(V8_EXTRACTED[f].xml)]
V8_NOTIFICATION == [f \in FileIds |-> parse_notification_xml(V8_EXTRACTED[f].xml)]

\* AdvancedDuplicateManager.is_duplicate on the manager dm
V8is_duplicate(dm, f, xml_content, now) ==
  LET content_hash == calculate_content_hash(xml_content)
      composite_key == <<calculate_hash(f), content_hash>>
  IN
  IF composite_key \in DOMAIN dm.processed_files
    THEN [is_dup |-> TRUE, key |-> composite_key, dm |-> dm]
  ELSE IF content_hash \in dm.content_hashes
    THEN [is_dup |-> TRUE, key |-> <<"content_", content_hash>>, dm |-> dm]
  ELSE [ is_dup |-> FALSE, key |-> composite_key,
         dm |-> [ processed_files |->
                    Put(dm.processed_files, composite_key,
                        [file_path |-> f, content_hash |-> content_hash, processed_at |-> now]),
                  content_hashes |-> dm.content_hashes \cup {content_hash} ] ]

\* AdvancedProcessingResult, with what is_duplicate returned kept beside it
\* (attempted: the strategies the decoder called for the file; kept_errors:
\* the decoder messages joined into error_message, errors[:3])
V8Outcome(f, status, method, msg, dup_called, is_dup, parsed) ==
  LET ext == V8_EXTRACTED[f]
      decoded == FILE_TYPE[f] # "UNSUPPORTED" /\ IS_P7M[f]
  IN
  [ file |-> f, file_name |-> NameOf(f), file_type |-> FILE_TYPE[f], status |-> status,
    method_used |-> method, error_message |-> msg,
    decoding_attempts |->
      IF ~decoded THEN <<>>
      ELSE IF ext.method # "FAILED" THEN <<ext.method>>
      ELSE <<"ASN1_FAILED", "WINDOWS_API_FAILED", "OPENSSL_FAILED">>,
    kept_errors |->
      IF decoded /\ ~ext.success
        THEN SubSeq(ext.errors, 1, IF Len(ext.errors) < 3 THEN Len(ext.errors) ELSE 3)
        ELSE <<>>,
    attempted |-> IF decoded THEN ext.attempted ELSE <<>>,
    dup_called |-> dup_called, is_duplicate |-> is_dup, parsed_data |-> parsed ]

\* process_single_file_advanced: the result, parsed_data and the manager
process_single_file_advanced(dm, enabled, f, now) ==
  LET file_type == FILE_TYPE[f]
      ext == V8_EXTRACTED[f]
      dup == V8is_duplicate(dm, f, ext.xml, now)
      dm1 == IF enabled THEN dup.dm ELSE dm
      meta == [tag |-> "metadata"]
  IN
  IF file_type = "UNSUPPORTED"
    THEN [dm |-> dm, result |-> V8Outcome(f, "SKIPPED", "NONE", "Tipo file non supportato",
                                          FALSE, FALSE, NoneResult)]
  ELSE IF ~ext.success
    THEN [dm |-> dm, result |-> V8Outcome(f, "KO", "NONE", "Decodifica P7M fallita",
                                          FALSE, FALSE, NoneResult)]
  ELSE IF enabled /\ dup.is_dup
    THEN [dm |-> dm1, result |-> V8Outcome(f, "SKIPPED", ext.method, "Duplicato",
                                           TRUE, TRUE, NoneResult)]
  ELSE IF file_type = "NOTIFICATION"
    THEN IF V8_NOTIFICATION[f].status = "OK"
           THEN [dm |-> dm1, result |-> V8Outcome(f, "OK", ext.method, "", enabled, FALSE,
                                                  [tag |-> "notification"])]
           ELSE [dm |-> dm1, result |-> V8Outcome(f, "KO", ext.method, "Parsing ricevuta fallito",
                                                  enabled, FALSE, NoneResult)]
  ELSE IF file_type = "METADATA"
    THEN [dm |-> dm1, result |-> V8Outcome(f, "OK", ext.method, "", enabled, FALSE, meta)]
  ELSE IF V8_INVOICE[f].tag = "None"
    THEN [dm |-> dm1,
          result |-> V8Outcome(f, "KO", ext.method, "Parsing fattura fallito o non del portfolio",
                               enabled, FALSE, NoneResult)]
  ELSE [dm |-> dm1, result |-> V8Outcome(f, "OK", ext.method, "", enabled, FALSE, V8_INVOICE[f])]

\* create_client_structure
V8EmptyDir == [json |-> <<>>, xml_decodificati |-> <<>>, p7m_originali |-> <<>>,
               ricevute_sdi |-> {}, metadati |-> {}]

\* save_organized_file_advanced, as organize_only_advanced calls it
save_organized_file_advanced(arch, f, xml_content, parsed_data, result, client_name, now) ==
  LET key == IF result.file_type = "INVOICE"
               THEN <<client_name, "RICEVUTE", parsed_data.invoice_year>>
             ELSE IF result.file_type = "NOTIFICATION"
               THEN <<client_name, "RICEVUTE", CurrentYear>>
             ELSE <<client_name, "METADATI", CurrentYear>>
      a0 == IF key \in DOMAIN arch THEN arch ELSE Put(arch, key, V8EmptyDir)
      dir == a0[key]
      base_name == BASE_NAME[f]
      metadata == [ id |-> now, fileName |-> NameOf(f), fileType |-> result.file_type,
                    company |-> client_name, method_used |-> result.method_used,
                    file_hash |-> calculate_hash(f), parsedData |-> parsed_data ]
      newdir == [ dir EXCEPT
                    !.json = Put(dir.json, base_name, Complete(metadata)),
                    !.xml_decodificati = Put(dir.xml_decodificati, base_name, Complete(xml_content)),
                    !.p7m_originali =
                       IF IS_P7M[f]
                         THEN Put(dir.p7m_originali, NameOf(f), Complete(ReadBytes(f)))
                         ELSE dir.p7m_originali ]
  IN  [ok |-> TRUE, archive |-> [a0 EXCEPT ![key] = newdir]]

\* ------------------------------------------------------------------------
\* xml_fatture_processor (first generation): read_fatture
\* ------------------------------------------------------------------------

\* read_fatture, line 152: the files handed to process_file
LegacySelected(name) ==
  /\ \/ EndsWith(name, <<".", "x", "m", "l">>)
     \/ EndsWith(name, <<".", "p", "7", "m">>)
  /\ ~Contains(Lower(name), METADATO)

\* process_file of the first generation: the Fattura it returns
LegacyProcessFile(f) ==
  LET tok == IF Files[f].signed THEN "" ELSE ParseXml(ReadBytes(f)) IN
  IF tok \in DOMAIN InvoiceDocs /\ InvoiceDocs[tok].data \in DOMAIN YearOfDate
    THEN [ file |-> f, nome_file |-> NameOf(f), stato_elaborazione |-> "OK",
           numero |-> InvoiceDocs[tok].numero ]
    ELSE [ file |-> f, nome_file |-> NameOf(f), stato_elaborazione |-> "KO", numero |-> "" ]

LEGACY_FATTURA == [f \in FileIds |-> LegacyProcessFile(f)]

\* ------------------------------------------------------------------------
\* State
\* ------------------------------------------------------------------------

VARIABLES
  program,                 \* which script the run executes
  gestione_duplicati_avanzata,  \* v8 config: elaborazione.gestione_duplicati_avanzata
  input_dir,               \* the files present in the input tree
  pc,                      \* "scan", "process", "done"
  invoice_files,           \* the work list built by the scan
  results,                 \* one outcome per processed file, in order
  processed_invoices_db,   \* processor_v3: key -> {file, processed_at}
  duplicate_manager,       \* v8: AdvancedDuplicateManager
  archive,                 \* <<company, direction, year>> -> archive directory
  prima_nota,              \* <<company, direction, year>> -> ledger file
  archivio_input,          \* input files moved to ARCHIVE_DIR
  clock,                   \* datetime.now(), one tick per processed file
  failures,                \* filesystem failures so far
  run,                     \* the number of the run of the script (1 = first)
  workers,                 \* per worker: the locals of the function it executes
  call                     \* a function checked on its own: arguments, locals, result

vars == <<program, gestione_duplicati_avanzata, input_dir, pc, invoice_files, results,
          processed_invoices_db, duplicate_manager, archive, prima_nota, archivio_input,
          clock, failures, run, workers, call>>

\* no run but the first, no concurrent worker, no function checked on its own
NoCall == [fn |-> "none"]
batch_only == <<run, workers, call>>

Programs == {"v3", "v8", "legacy"}

Init ==
  /\ program \in Programs
  /\ gestione_duplicati_avanzata \in IF program = "v8" THEN BOOLEAN ELSE {TRUE}
  /\ input_dir \in {S \in SUBSET FileIds : Cardinality(S) <= MaxInput}
  /\ pc = "scan"
  /\ invoice_files = <<>>
  /\ results = <<>>
  /\ processed_invoices_db = <<>>
  /\ duplicate_manager = [processed_files |-> <<>>, content_hashes |-> {}]
  /\ archive = <<>>
  /\ prima_nota = <<>>
  /\ archivio_input = {}
  /\ clock = 1
  /\ failures = 0
  /\ run = 1
  /\ workers = <<>>
  /\ call = NoCall

\* the loop never leaves early: process_file returns a result for every
\* exception (lines 527-529) and nothing else in the loop body can raise
remaining_files_abort_on_ko(files, result) ==
  IF result.status = "KO" THEN <<>> ELSE Tail(files)

\* `for file_path, is_temp in invoice_files`, lines 842-856: whatever the
\* result of the file, the loop goes on with the next one
remaining_files(files, result) == Tail(files)

\* main, lines 811-839: the scan keeps the files should_skip calls INVOICE;
\* rglob yields them in an order the filesystem chooses
V3Scan ==
  /\ program = "v3" /\ pc = "scan"
  /\ \E order \in SetToSeqs({f \in input_dir : SHOULD_SKIP[f] = <<FALSE, "INVOICE">>}) :
       invoice_files' = order
  /\ pc' = "process"
  /\ UNCHANGED <<program, gestione_duplicati_avanzata, input_dir, results,
                 processed_invoices_db, duplicate_manager, archive, prima_nota,
                 archivio_input, clock, failures>>
  /\ UNCHANGED batch_only

\* main, lines 842-856: one iteration of the processing loop
V3ProcessNext ==
  /\ program = "v3" /\ pc = "process" /\ invoice_files # <<>>
  /\ \E fail \in {x \in FailPoints : x = "none" \/ failures < MaxFailures} :
       \E r \in {process_file(processed_invoices_db, archive, prima_nota, input_dir,
                                Head(invoice_files), fail, clock)} :
           /\ fail = "none" \/ r.hit
           /\ failures' = IF fail = "none" THEN failures ELSE failures + 1
           /\ results' = Append(results, r.result)
           /\ processed_invoices_db' = r.db
           /\ archive' = r.archive
           /\ prima_nota' = r.prima_nota
           /\ IF r.result.status = "OK"
                THEN /\ input_dir' = input_dir \ {r.result.file}
                     /\ archivio_input' = archivio_input \cup {r.result.file}
                ELSE UNCHANGED <<input_dir, archivio_input>>
           /\ invoice_files' = remaining_files(invoice_files, r.result)
  /\ clock' = clock + 1
  /\ UNCHANGED <<program, gestione_duplicati_avanzata, pc, duplicate_manager>>
  /\ UNCHANGED batch_only

\* main, lines 858-889: the loop is over, the report is produced
V3Report ==
  /\ program = "v3" /\ pc = "process" /\ invoice_files = <<>>
  /\ pc' = "done"
  /\ UNCHANGED <<program, gestione_duplicati_avanzata, input_dir, invoice_files, results,
                 processed_invoices_db, duplicate_manager, archive, prima_nota,
                 archivio_input, clock, failures>>
  /\ UNCHANGED batch_only

\* source_dir.glob("**/*.xml") and glob("**/*.p7m") on the Windows host:
\* the pattern is matched without regard to case
GLOBBED ==
  [f \in FileIds |-> \E ext \in SUPPORTED_EXTENSIONS :
                       IF PlatformIsWindows THEN EndsWith(Lower(NameOf(f)), ext)
                       ELSE EndsWith(NameOf(f), ext)]

\* organize_only_advanced, lines 1617-1620: glob("**/*.xml"), glob("**/*.p7m")
V8Glob ==
  /\ program = "v8" /\ pc = "scan"
  /\ \E order \in SetToSeqs({f \in input_dir : GLOBBED[f]}) :
       invoice_files' = order
  /\ pc' = "process"
  /\ UNCHANGED <<program, gestione_duplicati_avanzata, input_dir, results,
                 processed_invoices_db, duplicate_manager, archive, prima_nota,
                 archivio_input, clock, failures>>
  /\ UNCHANGED batch_only

\* organize_only_advanced, lines 1625-1662: one iteration of the loop
V8ProcessNext ==
  /\ program = "v8" /\ pc = "process" /\ invoice_files # <<>>
  /\ \E r \in {process_single_file_advanced(duplicate_manager, gestione_duplicati_avanzata,
                                            Head(invoice_files), clock)} :
       /\ duplicate_manager' = r.dm
       /\ results' = Append(results, r.result)
       /\ IF r.result.status = "OK" /\ r.result.parsed_data.tag # "None"
            THEN archive' = save_organized_file_advanced(
                              archive, r.result.file, V8_EXTRACTED[r.result.file].xml,
                              r.result.parsed_data, r.result, "Cliente_Riorganizzato",
                              clock).archive
            ELSE archive' = archive
  /\ invoice_files' = Tail(invoice_files)
  /\ clock' = clock + 1
  /\ UNCHANGED <<program, gestione_duplicati_avanzata, input_dir, pc,
                 processed_invoices_db, prima_nota, archivio_input, failures>>
  /\ UNCHANGED batch_only

\* organize_only_advanced returns its OrganizationResult
V8Return ==
  /\ program = "v8" /\ pc = "process" /\ invoice_files = <<>>
  /\ pc' = "done"
  /\ UNCHANGED <<program, gestione_duplicati_avanzata, input_dir, invoice_files, results,
                 processed_invoices_db, duplicate_manager, archive, prima_nota,
                 archivio_input, clock, failures>>
  /\ UNCHANGED batch_only

\* read_fatture, lines 150-152: os.walk and the name filter
LegacyWalk ==
  /\ program = "legacy" /\ pc = "scan"
  /\ \E order \in SetToSeqs({f \in input_dir : LegacySelected(NameOf(f))}) :
       invoice_files' = order
  /\ pc' = "process"
  /\ UNCHANGED <<program, gestione_duplicati_avanzata, input_dir, results,
                 processed_invoices_db, duplicate_manager, archive, prima_nota,
                 archivio_input, clock, failures>>
  /\ UNCHANGED batch_only

\* read_fatture, lines 153-155: fatture.append(process_file(...))
LegacyProcessNext ==
  /\ program = "legacy" /\ pc = "process" /\ invoice_files # <<>>
  /\ results' = Append(results, LEGACY_FATTURA[Head(invoice_files)])
  /\ invoice_files' = Tail(invoice_files)
  /\ clock' = clock + 1
  /\ UNCHANGED <<program, gestione_duplicati_avanzata, input_dir, pc,
                 processed_invoices_db, duplicate_manager, archive, prima_nota,
                 archivio_input, failures>>
  /\ UNCHANGED batch_only

\* read_fatture prints its table and returns the list
LegacyReturn ==
  /\ program = "legacy" /\ pc = "process" /\ invoice_files = <<>>
  /\ pc' = "done"
  /\ UNCHANGED <<program, gestione_duplicati_avanzata, input_dir, invoice_files, results,
                 processed_invoices_db, duplicate_manager, archive, prima_nota,
                 archivio_input, clock, failures>>
  /\ UNCHANGED batch_only

Next ==
  \/ V3Scan \/ V3ProcessNext \/ V3Report
  \/ V8Glob \/ V8ProcessNext \/ V8Return
  \/ LegacyWalk \/ LegacyProcessNext \/ LegacyReturn

Spec == Init /\ [][Next]_vars

\* ------------------------------------------------------------------------
\* Properties
\* ------------------------------------------------------------------------

Indices == 1..Len(results)

\* the XML text the running program extracts from a file
DecodedOf(f) == IF program = "v8" THEN V8_EXTRACTED[f].xml ELSE EXTRACTED[f].xml

\* whole-file hash combined with the whitespace-normalized content hash
FINGERPRINT_V3 ==
  [f \in FileIds |-> <<calculate_hash(f), calculate_content_hash(EXTRACTED[f].xml)>>]
FINGERPRINT_V8 ==
  [f \in FileIds |-> <<calculate_hash(f), calculate_content_hash(V8_EXTRACTED[f].xml)>>]
Fingerprint(f) == IF program = "v8" THEN FINGERPRINT_V8[f] ELSE FINGERPRINT_V3[f]

\* the file's outcome says the archive step ran for it
ArchiveExecuted(r) ==
  CASE program = "v3" -> r.status = "OK" \/ r.error_message = "Errore salvataggio"
    [] program = "v8" -> r.status = "OK" /\ r.parsed_data.tag # "None"
    [] OTHER -> FALSE

ArchivedOncePerFingerprint ==
  \A i, j \in Indices :
    (i < j /\ ArchiveExecuted(results[i]) /\ ArchiveExecuted(results[j]))
      => Fingerprint(results[i].file) # Fingerprint(results[j].file)

\* C1 (as amended): in processor_v3, and in v8 while the option
\* elaborazione.gestione_duplicati_avanzata is on, the archive step runs at
\* most once per fingerprint within a run
C1_ArchivedOncePerFingerprint ==
  (program = "v3" \/ (program = "v8" /\ gestione_duplicati_avanzata))
    => ArchivedOncePerFingerprint

\* C1 witness: two files with one fingerprint went through the pipeline,
\* the first was archived and the second skipped as a duplicate
C1_Witness ==
  /\ program = "v3" \/ (program = "v8" /\ gestione_duplicati_avanzata)
  /\ \E i, j \in Indices :
       /\ i < j
       /\ Fingerprint(results[i].file) = Fingerprint(results[j].file)
       /\ ArchiveExecuted(results[i])
       /\ results[j].status = "SKIPPED" /\ results[j].is_duplicate

\* C1 as stated: in every run the archive step runs at most once per
\* fingerprint
C1_Original == ArchivedOncePerFingerprint

\* the deduplication index of the running program and its records
DedupIndex == IF program = "v8" THEN duplicate_manager.processed_files
              ELSE processed_invoices_db

\* a step in which the pipeline called check-and-register for the head file
DedupCall ==
  /\ program \in {"v3", "v8"}
  /\ Len(results') = Len(results) + 1
  /\ Last(results').dup_called

\* the content hash of f is already in the index (under any fingerprint)
ContentRegistered(f) ==
  /\ program = "v8"
  /\ calculate_content_hash(DecodedOf(f)) \in duplicate_manager.content_hashes

\* the record the first registration of f at time `now` stores
FirstRecordStored(idx, f, now) ==
  /\ Fingerprint(f) \in DOMAIN idx
  /\ idx[Fingerprint(f)].processed_at = now
  /\ IF program = "v8" THEN idx[Fingerprint(f)].file_path = f
     ELSE idx[Fingerprint(f)].file = NameOf(f)

IndexUnchanged ==
  /\ processed_invoices_db' = processed_invoices_db
  /\ duplicate_manager' = duplicate_manager

C2_Step ==
  DedupCall =>
    LET f == Head(invoice_files)
        r == Last(results')
        idx2 == IF program = "v8" THEN duplicate_manager'.processed_files
                ELSE processed_invoices_db'
    IN  IF Fingerprint(f) \in DOMAIN DedupIndex
          THEN r.is_duplicate /\ IndexUnchanged
        ELSE IF ContentRegistered(f)
          THEN r.is_duplicate /\ IndexUnchanged
        ELSE /\ ~r.is_duplicate
             /\ FirstRecordStored(idx2, f, clock)
             /\ \A k \in DOMAIN DedupIndex : k \in DOMAIN idx2 /\ idx2[k] = DedupIndex[k]

\* C2 (as amended): the first check-and-register call for a fingerprint
\* whose normalized-content hash is not yet registered reports
\* not-duplicate and stores the file and the time; a call for a registered
\* fingerprint, or (v8) for a new fingerprint whose content hash is already
\* registered, reports duplicate and changes no stored record
C2_FirstRegistersLaterDuplicate == [][C2_Step]_vars

\* C2 witness: a fingerprint was registered by a first call and a later
\* call with the same fingerprint reported duplicate; the stored record is
\* still that of the first call
C2_Witness ==
  /\ program \in {"v3", "v8"}
  /\ \E i, j \in Indices :
       /\ i < j
       /\ Fingerprint(results[i].file) = Fingerprint(results[j].file)
       /\ results[i].dup_called /\ ~results[i].is_duplicate
       /\ results[j].dup_called /\ results[j].is_duplicate
       /\ FirstRecordStored(DedupIndex, results[i].file, i)

C2_OriginalStep ==
  DedupCall =>
    LET f == Head(invoice_files)
        r == Last(results')
    IN  IF Fingerprint(f) \in DOMAIN DedupIndex
          THEN r.is_duplicate /\ IndexUnchanged
          ELSE ~r.is_duplicate

\* C2 as stated: the first call for a fingerprint reports not-duplicate,
\* every later one duplicate without touching the record
C2_Original == [][C2_OriginalStep]_vars

\* C3: of two check-and-register calls for documents equal after all
\* whitespace is stripped, the later one reports duplicate
C3_SameNormalizedContentIsDuplicate ==
  \A i, j \in Indices :
    ( /\ i < j
      /\ program \in {"v3", "v8"}
      /\ results[i].dup_called /\ results[j].dup_called
      /\ StripWhitespace(DecodedOf(results[i].file)) = StripWhitespace(DecodedOf(results[j].file)) )
      => results[j].is_duplicate

\* the FatturaPA document a file decodes to, "" when it is not one
DocToken(xml_content) ==
  LET tok == ParseXml(xml_content) IN IF tok \in DOMAIN InvoiceDocs THEN tok ELSE ""
DOC_V3 == [f \in FileIds |-> DocToken(EXTRACTED[f].xml)]
DOC_V8 == [f \in FileIds |-> DocToken(V8_EXTRACTED[f].xml)]
DocOf(f) == IF program = "v8" THEN DOC_V8[f] ELSE DOC_V3[f]

\* the positions of the outcomes archived (status OK) under a ledger key
ArchivedFor(key) ==
  {i \in Indices : /\ results[i].status = "OK"
                   /\ <<results[i].company_name, results[i].direction,
                        results[i].invoice_year>> = key}

LedgerKeys ==
  {<<results[i].company_name, results[i].direction, results[i].invoice_year>> :
     i \in {j \in Indices : results[j].status = "OK"}}

\* the sum of amount(i) over the positions i of N
SumOver(N, amount(_)) ==
  SumSeq([i \in Indices |-> IF i \in N THEN amount(i) ELSE 0])

LedgerExact(key) ==
  LET N == ArchivedFor(key)
      doc(i) == InvoiceDocs[DocOf(results[i].file)]
      importo(i) == doc(i).importo
      ritenuta(i) == IF doc(i).ritenuta THEN doc(i).importo_ritenuta ELSE 0
  IN  /\ key \in DOMAIN prima_nota
      /\ prima_nota[key].complete
      /\ LET ledger == prima_nota[key].data IN
           /\ Len(ledger.invoices) = Cardinality(N)
           /\ ledger.summary.total_invoices = Cardinality(N)
           /\ ledger.summary.total_amount = SumOver(N, importo)
           /\ ledger.summary.total_ritenute = SumOver(N, ritenuta)
           /\ ledger.summary.fatture_con_ritenuta = Cardinality({i \in N : doc(i).ritenuta})

\* C4: after N invoices were archived under a ledger key, the ledger holds
\* N entries and its summary is the exact recomputation over them
C4_LedgerSummaryExact ==
  program = "v3" => \A key \in LedgerKeys : LedgerExact(key)

\* C5: a ledger file is never left partially written
C5_LedgerNeverPartial ==
  \A key \in DOMAIN prima_nota : prima_nota[key].complete

\* lines 240-242 applied to the raw element texts of a document
ResolvedIds(tok) ==
  LET d == InvoiceDocs[tok] IN
  [ supplier |-> IF d.cedente_piva # "" THEN d.cedente_piva ELSE d.cedente_cf,
    customer |-> IF d.cessionario_piva # "" THEN d.cessionario_piva ELSE d.cessionario_cf ]

NotInPortfolio(f) ==
  /\ DocOf(f) # ""
  /\ ResolvedIds(DocOf(f)).supplier \notin DOMAIN PORTFOLIO_AZIENDE
  /\ ResolvedIds(DocOf(f)).customer \notin DOMAIN PORTFOLIO_AZIENDE

\* some archive directory holds a structured record written for the file
HasArchiveRecord(f) ==
  \E key \in DOMAIN archive : \E b \in DOMAIN archive[key].json :
    /\ archive[key].json[b].complete
    /\ archive[key].json[b].data.fileName = NameOf(f)

\* C6: an invoice with neither party in the portfolio is not archived: its
\* outcome is not OK and no archive record exists for it
C6_NotInPortfolioNotArchived ==
  \A i \in Indices :
    (program \in {"v3", "v8"} /\ NotInPortfolio(results[i].file))
      => (results[i].status # "OK" /\ ~HasArchiveRecord(results[i].file))

\* C7: (processor_v3) supplier's resolved identity in the portfolio gives
\* EMESSE and the supplier's client; otherwise customer's resolved identity
\* in the portfolio gives RICEVUTE and the customer's client; supplier wins
C7_DirectionResolution ==
  program = "v3" =>
    \A i \in Indices :
      LET tok == DocOf(results[i].file) IN
      tok # "" =>
        LET ids == ResolvedIds(tok) IN
        IF ids.supplier \in DOMAIN PORTFOLIO_AZIENDE
          THEN /\ results[i].direction = "EMESSE"
               /\ results[i].company_name = PORTFOLIO_AZIENDE[ids.supplier]
        ELSE IF ids.customer \in DOMAIN PORTFOLIO_AZIENDE
          THEN /\ results[i].direction = "RICEVUTE"
               /\ results[i].company_name = PORTFOLIO_AZIENDE[ids.customer]
        ELSE results[i].direction = "" /\ results[i].status = "KO"

\* C7 witness: an invoice with both parties in the portfolio was parsed as
\* EMESSE, and one with only the customer in it as RICEVUTE
C7_Witness ==
  /\ program = "v3"
  /\ \E i, j \in Indices :
       /\ DocOf(results[i].file) # ""
       /\ ResolvedIds(DocOf(results[i].file)).supplier \in DOMAIN PORTFOLIO_AZIENDE
       /\ ResolvedIds(DocOf(results[i].file)).customer \in DOMAIN PORTFOLIO_AZIENDE
       /\ results[i].direction = "EMESSE"
       /\ DocOf(results[j].file) # ""
       /\ ResolvedIds(DocOf(results[j].file)).supplier \notin DOMAIN PORTFOLIO_AZIENDE
       /\ results[j].direction = "RICEVUTE"

\* the class the priority order metadata > notification > extension gives
ExpectedType(name) ==
  CASE is_metadata(name) -> "METADATA"
    [] ~is_metadata(name) /\ is_notification(name) -> "NOTIFICATION"
    [] ~is_metadata(name) /\ ~is_notification(name) /\ is_supported_file(name) -> "INVOICE"
    [] OTHER -> "UNSUPPORTED"

EXPECTED_TYPE == [f \in FileIds |-> ExpectedType(NameOf(f))]
IS_METADATA == [f \in FileIds |-> is_metadata(NameOf(f))]
IS_NOTIFICATION == [f \in FileIds |-> is_notification(NameOf(f))]
LOWER_NAME == [f \in FileIds |-> Lower(NameOf(f))]

\* C8: the classifier gives every file the class of the first rule its
\* name matches, in the order metadata, notification, supported extension:
\* in v8 every outcome carries that class, in processor_v3 should_skip
\* returns it and only files of class INVOICE reach the pipeline
C8_ClassifyPriority ==
  /\ program = "v8" =>
       \A i \in Indices : results[i].file_type = EXPECTED_TYPE[results[i].file]
  /\ program = "v3" =>
       /\ \A f \in input_dir : SHOULD_SKIP[f][2] = EXPECTED_TYPE[f]
       /\ \A i \in Indices : EXPECTED_TYPE[results[i].file] = "INVOICE"
       /\ \A k \in 1..Len(invoice_files) : EXPECTED_TYPE[invoice_files[k]] = "INVOICE"

\* C8 witness: v8 classified a file whose name matches both conventions as
\* METADATA, and a notification-named .xml file as NOTIFICATION
C8_Witness ==
  /\ program = "v8"
  /\ \E i, j \in Indices :
       /\ IS_METADATA[results[i].file] /\ IS_NOTIFICATION[results[i].file]
       /\ results[i].file_type = "METADATA"
       /\ ~IS_METADATA[results[j].file] /\ IS_NOTIFICATION[results[j].file]
       /\ results[j].file_type = "NOTIFICATION"

\* C9: no file named by the metadata or notification convention is handed
\* to the invoice parser or yields an invoice record
C9_NoInvoiceParseOfNotification ==
  \A i \in Indices :
    (IS_METADATA[results[i].file] \/ IS_NOTIFICATION[results[i].file])
      => /\ program = "v8"
         /\ results[i].file_type # "INVOICE"
         /\ results[i].parsed_data.tag # "Invoice"

\* the co-located files whose stem starts with the stem of f
SHARES_STEM ==
  [f \in FileIds |-> {g \in FileIds : ParentOf(g) = ParentOf(f) /\ StartsWith(StemOf(g), StemOf(f))}]
SharingStem(f) == SHARES_STEM[f] \cap input_dir

C10_Step ==
  ( /\ program = "v3"
    /\ Len(results') = Len(results) + 1
    /\ Last(results').status = "OK" ) =>
    LET f == Head(invoice_files)
        r == Last(results')
        key == <<r.company_name, r.direction, r.invoice_year>>
        old == IF key \in DOMAIN archive THEN archive[key] ELSE EmptyDir
    IN  /\ key \in DOMAIN archive'
        /\ archive'[key].metadati =
             old.metadati \cup {NameOf(g) : g \in {h \in SharingStem(f) :
                                                     EXPECTED_TYPE[h] = "METADATA"}}
        /\ archive'[key].ricevute =
             old.ricevute \cup {NameOf(g) : g \in {h \in SharingStem(f) :
                                                     EXPECTED_TYPE[h] = "NOTIFICATION"}}

\* C10: when processor_v3 archives an invoice file, the metadata subfolder
\* of its archive directory gains exactly the co-located METADATA files
\* whose stem starts with the invoice's stem, and the notifications
\* subfolder exactly the co-located NOTIFICATION files whose stem does
C10_RelatedFilesCopied == [][C10_Step]_vars

\* C10 witness: an invoice was archived with its metadata file copied
\* beside it while a co-located metadata file of another stem was left out
C10_Witness ==
  /\ program = "v3"
  /\ \E i \in Indices :
       /\ results[i].status = "OK"
       /\ LET f == results[i].file
              key == <<results[i].company_name, results[i].direction, results[i].invoice_year>>
          IN  /\ \E g \in input_dir :
                   /\ g \in SHARES_STEM[f]
                   /\ IS_METADATA[g]
                   /\ NameOf(g) \in archive[key].metadati
              /\ \E g \in input_dir :
                   /\ ParentOf(g) = ParentOf(f) /\ g \notin SHARES_STEM[f]
                   /\ IS_METADATA[g]
                   /\ NameOf(g) \notin archive[key].metadati

\* C11: two files whose names differ only in letter case get the same
\* class from the classifier
C11_ClassifyCaseInsensitive ==
  \A i, j \in Indices :
    (program = "v8" /\ LOWER_NAME[results[i].file] = LOWER_NAME[results[j].file])
      => results[i].file_type = results[j].file_type

\* a strategy, run on the file, yields text holding the prologue
YieldsPrologue(f, name) ==
  IF program = "v3"
    THEN CASE name = "Python ASN1" -> VariantOutcome(Files[f].asn1, 1, "raise") = "xml"
           [] name = "Windows API" -> VariantOutcome(Files[f].win, 1, "raise") = "xml"
           [] OTHER -> VariantOutcome(Files[f].openssl, 1, "nonzero") = "xml"
    ELSE CASE name = "ASN1" -> \E k \in 1..Len(Files[f].asn1) : Files[f].asn1[k] = "xml"
           [] name = "WINDOWS_API" -> \E k \in 1..Len(Files[f].win) : Files[f].win[k] = "xml"
           [] OTHER -> \E k \in 1..Len(Files[f].openssl) :
                         Files[f].openssl[k] \in {"xml", "stderr_xml"}

StrategyOrder == IF program = "v3" THEN STRATEGIES ELSE V8_STRATEGIES


\* the outcomes of files that went through a decode call
DecodeCalls == {i \in Indices : program \in {"v3", "v8"} /\ IS_P7M[results[i].file]}

\* C12: a decode call tries the strategies in the fixed order (ASN.1
\* library, platform API, external tool), each at most once, and stops at
\* the first whose output holds the prologue: the strategies called are a
\* prefix of the order, the method returned is the last one called, and
\* no strategy called before it yields the prologue
C12_StrategiesInOrderStopAtFirst ==
  \A i \in DecodeCalls :
    LET r == results[i]
        n == Len(r.attempted)
    IN  /\ n >= 1 /\ n <= Len(StrategyOrder)
        /\ r.attempted = SubSeq(StrategyOrder, 1, n)
        /\ \A k \in 1..(n - 1) : ~YieldsPrologue(r.file, r.attempted[k])
        /\ IF YieldsPrologue(r.file, r.attempted[n])
             THEN r.method_used = r.attempted[n]
             ELSE n = Len(StrategyOrder) /\ r.method_used \in {"NONE", "FAILED"}

\* C12 witness: a decode call stopped at the second strategy after the
\* first one failed, leaving the third untried
C12_Witness ==
  \E i \in DecodeCalls :
    /\ Len(results[i].attempted) = 2
    /\ results[i].method_used = results[i].attempted[2]
    /\ YieldsPrologue(results[i].file, StrategyOrder[3])

\* the list of attempt errors a decode call hands to its caller: all_errors
\* of decrypt_p7m_file; extract_xml_from_p7m returns (None, "FAILED") and
\* no list
AttemptErrors(f) == IF program = "v8" THEN V8_EXTRACTED[f].errors ELSE <<>>

DecodeFailed(r) == r.status = "KO" /\ r.method_used = "NONE"

\* C13: a decode call in which no strategy succeeds returns a non-empty
\* list of attempt errors
C13_FailureHasAttemptErrors ==
  \A i \in DecodeCalls :
    DecodeFailed(results[i]) => AttemptErrors(results[i].file) # <<>>

Range(seq) == {seq[k] : k \in 1..Len(seq)}

\* C14: (v8) every error message produced by a strategy or variant that
\* was tried and failed is in the list the decode call returns and in the
\* processing outcome of the file
C14_AllFailureMessagesKept ==
  \A i \in DecodeCalls :
    program = "v8" =>
      /\ Range(V8_EXTRACTED[results[i].file].produced)
           \subseteq Range(V8_EXTRACTED[results[i].file].errors)
      /\ Range(V8_EXTRACTED[results[i].file].produced) \subseteq Range(results[i].kept_errors)

\* C15: a decode won by the external-tool strategy was won by a command
\* that exited with code 0 and in time: a command that timed out or exited
\* nonzero counts as failed, and the commands after it are still tried
C15_ToolFailureIsFailure ==
  \A i \in DecodeCalls :
    results[i].method_used \in {"OpenSSL", "OPENSSL"}
      => \E k \in 1..Len(Files[results[i].file].openssl) :
           Files[results[i].file].openssl[k] = "xml"

\* the bytes of the file begin with the plain-document prologue
BEGINS_WITH_PROLOGUE ==
  [f \in FileIds |-> Len(ReadBytes(f)) >= 1 /\ ReadBytes(f)[1] = PROLOGUE]

\* C16: input that begins with the prologue is passed through with the
\* direct method and no envelope strategy is tried on it, whatever the
\* extension; envelope strategies are tried only on other input
C16_ProloguePassesThrough ==
  \A i \in Indices :
    (program \in {"v3", "v8"} /\ BEGINS_WITH_PROLOGUE[results[i].file])
      => (results[i].method_used = "DIRECT_XML" /\ results[i].attempted = <<>>)

\* the files the run found in the input tree (processor_v3 moves the
\* archived ones to ARCHIVE_DIR)
InputFiles == input_dir \cup archivio_input

\* C17: when the batch is over every input file, skipped ones included,
\* has exactly one processing outcome
C17_OneOutcomePerInputFile ==
  (program \in {"v3", "v8"} /\ pc = "done")
    => \A f \in InputFiles : Cardinality({i \in Indices : results[i].file = f}) = 1

\* the files the scan of each program hands to its processing loop
Scanned ==
  {f \in InputFiles :
     CASE program = "v3" -> SHOULD_SKIP[f] = <<FALSE, "INVOICE">>
       [] program = "v8" -> GLOBBED[f]
       [] OTHER -> LegacySelected(NameOf(f))}

\* the outcome records a failure of the file
Failed(r) ==
  IF program = "legacy" THEN r.stato_elaborazione = "KO" ELSE r.status = "KO"

\* C18: a failure on one file never ends the batch early: when the batch is
\* over every file handed to the processing loop has its own outcome, and
\* while it runs the files still to do are exactly those without an outcome
C18_FailureDoesNotAbortBatch ==
  pc \in {"process", "done"}
    => /\ \A f \in Scanned :
            Cardinality({i \in Indices : results[i].file = f})
              + Cardinality({j \in 1..Len(invoice_files) : invoice_files[j] = f}) = 1
       /\ pc = "done" => invoice_files = <<>>

\* a write failure on one file followed by the successful archiving of a
\* later file, in a finished batch
C18_Witness ==
  /\ pc = "done" /\ program = "v3"
  /\ \E i, j \in Indices :
       /\ i < j
       /\ results[i].status = "KO" /\ results[i].error_message = "Errore salvataggio"
       /\ results[j].status = "OK"

\* generate_report, lines 679-682: the counters of the final report
generate_report(res) ==
  [ total |-> Len(res),
    ok_count |-> Cardinality({i \in 1..Len(res) : res[i].status = "OK"}),
    ko_count |-> Cardinality({i \in 1..Len(res) : res[i].status = "KO"}),
    skip_count |-> Cardinality({i \in 1..Len(res) : res[i].status = "SKIPPED"}) ]

\* C19: an invoice whose parties are both outside the portfolio is a skip,
\* not a failure: its outcome never has the failure status and the report
\* does not count it among the errors
C19_NotInPortfolioIsNotAFailure ==
  program \in {"v3", "v8"} =>
    /\ \A i \in Indices : NotInPortfolio(results[i].file) => results[i].status # "KO"
    /\ generate_report(results).ko_count
         = Cardinality({i \in Indices : /\ results[i].status = "KO"
                                        /\ ~NotInPortfolio(results[i].file)})

\* the ledger of the key holds the entry written for the i-th outcome (the
\* entry id is the time of processing, one tick per processed file)
LedgerHasEntry(key, i) ==
  /\ key \in DOMAIN prima_nota
  /\ prima_nota[key].complete
  /\ \E k \in 1..Len(prima_nota[key].data.invoices) :
       prima_nota[key].data.invoices[k].id = i

\* C20: (processor_v3) a file is reported as archived (status OK) only if
\* the ledger of its key contains its entry: a failed ledger update shows
\* in the outcome of the file
C20_OkOnlyWithLedgerEntry ==
  program = "v3" =>
    \A i \in Indices :
      results[i].status = "OK"
        => LedgerHasEntry(<<results[i].company_name, results[i].direction,
                            results[i].invoice_year>>, i)

\* ------------------------------------------------------------------------
\* Element texts: dates and party names (the parsers checked on their own)
\* ------------------------------------------------------------------------

\* an element of the document: absent, present without text (elem.text is
\* None: <Nome/> or <Nome></Nome>), or present with text
AbsentElem == [present |-> FALSE, has_text |-> FALSE, text |-> <<>>]
EmptyElem == [present |-> TRUE, has_text |-> FALSE, text |-> <<>>]
TextElem(t) == [present |-> TRUE, has_text |-> TRUE, text |-> t]

RECURSIVE LStrip(_)
LStrip(t) == IF t # <<>> /\ IsWhitespace(Head(t)) THEN LStrip(Tail(t)) ELSE t

RECURSIVE RStrip(_)
RStrip(t) ==
  IF t # <<>> /\ IsWhitespace(t[Len(t)]) THEN RStrip(SubSeq(t, 1, Len(t) - 1)) ELSE t

\* str.strip()
Strip(t) == RStrip(LStrip(t))

\* get_text(path): None is rendered as the empty text, which `if text` and
\* `text or "N/D"` treat alike
get_text(elem) == IF elem.present /\ elem.has_text THEN Strip(elem.text) ELSE <<>>

DigitValue ==
  ("0" :> 0) @@ ("1" :> 1) @@ ("2" :> 2) @@ ("3" :> 3) @@ ("4" :> 4) @@
  ("5" :> 5) @@ ("6" :> 6) @@ ("7" :> 7) @@ ("8" :> 8) @@ ("9" :> 9)

IsDigits(t) == \A i \in 1..Len(t) : t[i] \in DOMAIN DigitValue

RECURSIVE NumberOf(_)
\* int(t) of a text of digits
NumberOf(t) ==
  IF t = <<>> THEN 0 ELSE 10 * NumberOf(SubSeq(t, 1, Len(t) - 1)) + DigitValue[t[Len(t)]]

\* calendar.isleap and the days of a month
IsLeap(y) == (y % 4 = 0 /\ y % 100 # 0) \/ y % 400 = 0
DaysInMonth(y, m) ==
  IF m = 2 THEN (IF IsLeap(y) THEN 29 ELSE 28)
  ELSE IF m \in {4, 6, 9, 11} THEN 30 ELSE 31

\* how many characters the directive %m (1[0-2]|0[1-9]|[1-9]) or %d
\* (3[01]|[12]\d|0[1-9]|[1-9]) takes at the head of t: the first
\* alternative that matches, 0 when none does
TakeMonth(t) ==
  IF Len(t) >= 2 /\ t[1] = "1" /\ t[2] \in {"0", "1", "2"} THEN 2
  ELSE IF Len(t) >= 2 /\ t[1] = "0" /\ t[2] \in DOMAIN DigitValue \ {"0"} THEN 2
  ELSE IF Len(t) >= 1 /\ t[1] \in DOMAIN DigitValue \ {"0"} THEN 1
  ELSE 0

TakeDay(t) ==
  IF Len(t) >= 2 /\ t[1] = "3" /\ t[2] \in {"0", "1"} THEN 2
  ELSE IF Len(t) >= 2 /\ t[1] \in {"1", "2"} /\ t[2] \in DOMAIN DigitValue THEN 2
  ELSE IF Len(t) >= 2 /\ t[1] = "0" /\ t[2] \in DOMAIN DigitValue \ {"0"} THEN 2
  ELSE IF Len(t) >= 1 /\ t[1] \in DOMAIN DigitValue \ {"0"} THEN 1
  ELSE 0

NoDate == [ok |-> FALSE, year |-> 0, month |-> 0, day |-> 0]

\* datetime.strptime(t, '%Y-%m-%d').date(): ok = FALSE when it raises
\* ValueError (no match, unconverted data, or no such day)
strptime(t) ==
  IF ~(Len(t) >= 5 /\ IsDigits(SubSeq(t, 1, 4)) /\ t[5] = "-") THEN NoDate
  ELSE
    LET y == NumberOf(SubSeq(t, 1, 4))
        r == SubSeq(t, 6, Len(t))
        km == TakeMonth(r)
    IN  IF km = 0 \/ Len(r) < km + 1 \/ r[km + 1] # "-" THEN NoDate
        ELSE
          LET m == NumberOf(SubSeq(r, 1, km))
              q == SubSeq(r, km + 2, Len(r))
              kd == TakeDay(q)
          IN  IF kd = 0 \/ kd # Len(q) THEN NoDate
              ELSE
                LET d == NumberOf(SubSeq(q, 1, kd)) IN
                IF y >= 1 /\ d <= DaysInMonth(y, m)
                  THEN [ok |-> TRUE, year |-> y, month |-> m, day |-> d]
                  ELSE NoDate

\* date.today() / datetime.now()
Today == [ok |-> TRUE, year |-> 2026, month |-> 11, day |-> 2]

\* parse_invoice_completo, lines 255-257: the year, or raised = TRUE when
\* strptime raises (the except of line 297 then returns None)
invoice_year_v3(data) ==
  LET invoice_date_str == get_text(data) IN
  IF invoice_date_str = <<>> THEN [raised |-> FALSE, invoice_year |-> Today.year]
  ELSE IF strptime(invoice_date_str).ok
    THEN [raised |-> FALSE, invoice_year |-> strptime(invoice_date_str).year]
  ELSE [raised |-> TRUE, invoice_year |-> 0]

\* parse_invoice_xml_advanced, lines 762-770: the try/except around strptime
\* keeps the current year
invoice_year_v8(data) ==
  LET invoice_date_str == get_text(data) IN
  IF invoice_date_str # <<>> /\ strptime(invoice_date_str).ok
    THEN [raised |-> FALSE, invoice_year |-> strptime(invoice_date_str).year]
    ELSE [raised |-> FALSE, invoice_year |-> Today.year]

MANCANTI == <<"Dati anagrafici mancanti">>

\* the Anagrafica subtree: None, or its three optional children
NoNode == [present |-> FALSE]
Node(den, nome, cognome) ==
  [present |-> TRUE, Denominazione |-> den, Nome |-> nome, Cognome |-> cognome]

\* processor_v3.get_denominazione_or_nome_cognome: raised = TRUE when
\* nome.text.strip() or cognome.text.strip() is called on None
get_denominazione_or_nome_cognome_v3(node) ==
  IF ~node.present THEN [raised |-> FALSE, value |-> MANCANTI]
  ELSE IF node.Denominazione.present /\ node.Denominazione.has_text
            /\ node.Denominazione.text # <<>>
    THEN [raised |-> FALSE, value |-> Strip(node.Denominazione.text)]
  ELSE IF node.Nome.present /\ node.Cognome.present
    THEN IF node.Nome.has_text /\ node.Cognome.has_text
           THEN [raised |-> FALSE,
                 value |-> Strip(node.Nome.text) \o <<" ">> \o Strip(node.Cognome.text)]
           ELSE [raised |-> TRUE, value |-> <<>>]
  ELSE [raised |-> FALSE, value |-> MANCANTI]

\* xml_fatture_processor_v8.get_denominazione_or_nome_cognome
get_denominazione_or_nome_cognome_v8(node) ==
  IF ~node.present THEN [raised |-> FALSE, value |-> MANCANTI]
  ELSE IF node.Denominazione.present /\ node.Denominazione.has_text
            /\ node.Denominazione.text # <<>>
    THEN [raised |-> FALSE, value |-> Strip(node.Denominazione.text)]
  ELSE
    LET nome_text == IF node.Nome.has_text THEN Strip(node.Nome.text) ELSE <<>>
        cognome_text == IF node.Cognome.has_text THEN Strip(node.Cognome.text) ELSE <<>>
    IN  IF node.Nome.present /\ node.Cognome.present /\ nome_text # <<>> /\ cognome_text # <<>>
          THEN [raised |-> FALSE, value |-> nome_text \o <<" ">> \o cognome_text]
          ELSE [raised |-> FALSE, value |-> MANCANTI]

\* the <Data> elements and the Anagrafica subtrees the parsers are run on
DateElems ==
  {AbsentElem, EmptyElem, TextElem(<<" ">>)} \cup
  {TextElem(t) : t \in {<<"2", "0", "2", "4", "-", "0", "3", "-", "0", "1">>,
                        <<"2", "0", "2", "3", "-", "1", "2", "-", "3", "1">>,
                        <<"2", "0", "2", "4", "-", "3", "-", "1">>,
                        <<"2", "0", "2", "4", "-", "0", "2", "-", "2", "9">>,
                        <<"2", "0", "2", "3", "-", "0", "2", "-", "2", "9">>,
                        <<"2", "0", "2", "4", "-", "0", "2", "-", "3", "0">>,
                        <<"2", "0", "2", "4", "-", "1", "3", "-", "0", "1">>,
                        <<"0", "1", "/", "0", "3", "/", "2", "0", "2", "4">>,
                        <<" ", "2", "0", "2", "4", "-", "0", "3", "-", "0", "1", " ">>,
                        <<"2", "0", "2", "4", "-", "0", "3", "-", "0", "1", "1">>,
                        <<"0", "0", "0", "0", "-", "0", "1", "-", "0", "1">>}}

NameElems(t) == {AbsentElem, EmptyElem, TextElem(<<" ">>), TextElem(t), TextElem(<<" ">> \o t)}

Nodes ==
  {NoNode} \cup
  {Node(den, nome, cognome) : den \in NameElems(<<"V", "i", "z", "z", "i">>),
                              nome \in NameElems(<<"M", "a", "r", "i", "o">>),
                              cognome \in NameElems(<<"R", "o", "s", "s", "i">>)}

\* ------------------------------------------------------------------------
\* The field parsers run on one document
\* ------------------------------------------------------------------------

\* no batch is running: the state of the scripts before main is entered
NoBatch ==
  /\ gestione_duplicati_avanzata = TRUE
  /\ input_dir = {}
  /\ pc = "idle"
  /\ invoice_files = <<>>
  /\ results = <<>>
  /\ processed_invoices_db = <<>>
  /\ duplicate_manager = [processed_files |-> <<>>, content_hashes |-> {}]
  /\ archive = <<>>
  /\ prima_nota = <<>>
  /\ archivio_input = {}
  /\ clock = 1
  /\ failures = 0

batch_state == <<program, gestione_duplicati_avanzata, input_dir, pc, invoice_files, results,
                 processed_invoices_db, duplicate_manager, archive, prima_nota,
                 archivio_input, clock, failures>>

\* a document with a <Data> element and a cedente Anagrafica subtree is
\* handed to the parser of the program
InitParse ==
  /\ NoBatch
  /\ program \in {"v3", "v8"}
  /\ run = 1
  /\ workers = <<>>
  /\ call \in {[fn |-> "parse", data |-> d, node |-> n, returned |-> FALSE] :
                  d \in DateElems, n \in Nodes}

\* the date and the party name as the parser of the program extracts them
ParseFields(prog, data, node) ==
  IF prog = "v3"
    THEN [year |-> invoice_year_v3(data), name |-> get_denominazione_or_nome_cognome_v3(node)]
    ELSE [year |-> invoice_year_v8(data), name |-> get_denominazione_or_nome_cognome_v8(node)]

\* parse_invoice_completo / parse_invoice_xml_advanced on the document
ParseDocument ==
  /\ call.fn = "parse" /\ ~call.returned
  /\ call' = [fn |-> "parse", data |-> call.data, node |-> call.node, returned |-> TRUE,
              ret |-> ParseFields(program, call.data, call.node)]
  /\ UNCHANGED <<batch_state, run, workers>>

SpecParse == InitParse /\ [][ParseDocument]_vars

\* the <Data> text parses in the fixed format
DateParses(data) == get_text(data) # <<>> /\ strptime(get_text(data)).ok

\* C21: a missing or unparseable date does not fail the parsing and gives
\* the current year; a date that parses gives its own year
C21_YearFromDateOrCurrent ==
  (call.fn = "parse" /\ call.returned)
    => /\ ~call.ret.year.raised
       /\ call.ret.year.invoice_year
            = IF DateParses(call.data) THEN strptime(get_text(call.data)).year
              ELSE Today.year

\* the element holds a text that is not blank
HasName(elem) == elem.present /\ elem.has_text /\ Strip(elem.text) # <<>>

\* C22: the party name extraction never raises, whatever combination of
\* absent, empty and filled Denominazione, Nome and Cognome it is given
\* (Anagrafica absent included): it returns the denomination when there is
\* one, else first name and last name when both are there, else the
\* sentinel when the subtree or one of the two names is absent
C22_PartyNameFallbackNeverRaises ==
  (call.fn = "parse" /\ call.returned)
    => LET node == call.node
           name == call.ret.name
       IN  /\ ~name.raised
           /\ ~node.present => name.value = MANCANTI
           /\ (node.present /\ HasName(node.Denominazione))
                => name.value = Strip(node.Denominazione.text)
           /\ (node.present /\ ~node.Denominazione.has_text
                 /\ HasName(node.Nome) /\ HasName(node.Cognome))
                => name.value = Strip(node.Nome.text) \o <<" ">> \o Strip(node.Cognome.text)
           /\ (node.present /\ ~node.Denominazione.has_text
                 /\ (~node.Nome.present \/ ~node.Cognome.present))
                => name.value = MANCANTI

\* the archive record and the decoded document written for the i-th
\* outcome are still in the archive directory of its key: the record id is
\* the time of processing, one tick per processed file
OwnRecordKept(key, i) ==
  /\ key \in DOMAIN archive
  /\ \E b \in DOMAIN archive[key].json :
       /\ archive[key].json[b].complete
       /\ archive[key].json[b].data.id = i
       /\ b \in DOMAIN archive[key].xml_decodificati
       /\ archive[key].xml_decodificati[b] = Complete(DecodedOf(results[i].file))

\* C23: (processor_v3, no filesystem failure) every archived invoice keeps
\* its own structured record and decoded document, and under each key the
\* structured records are as many as the ledger entries
C23_OneRecordPerArchivedInvoice ==
  (program = "v3" /\ failures = 0) =>
    /\ \A i \in Indices :
         results[i].status = "OK"
           => OwnRecordKept(<<results[i].company_name, results[i].direction,
                              results[i].invoice_year>>, i)
    /\ \A key \in DOMAIN prima_nota :
         Cardinality(DOMAIN archive[key].json) = Len(prima_nota[key].data.invoices)

\* json.load of a structured record, read as the fields of the invoice
ReadBack(record) ==
  [ invoice_number |-> record.invoiceNumber,
    invoice_date |-> record.invoiceDate,
    invoice_year |-> record.invoiceYear,
    total_amount |-> record.totalAmount,
    cedente_denominazione |-> record.cedente.denominazione,
    cedente_id_fiscale |-> record.cedente.codice_fiscale,
    cedente_partita_iva |-> record.cedente.partita_iva,
    cessionario_denominazione |-> record.cessionario.denominazione,
    cessionario_id_fiscale |-> record.cessionario.codice_fiscale,
    cessionario_partita_iva |-> record.cessionario.partita_iva,
    has_ritenuta |-> record.has_ritenuta,
    importo_ritenuta |-> record.importo_ritenuta,
    tipo_ritenuta |-> record.tipo_ritenuta,
    company_name |-> record.company,
    direction |-> record.direction ]

\* the non-provenance fields of FatturaCompleta
INVOICE_FIELDS ==
  { "invoice_number", "invoice_date", "invoice_year", "total_amount",
    "cedente_denominazione", "cedente_id_fiscale", "cedente_partita_iva",
    "cessionario_denominazione", "cessionario_id_fiscale", "cessionario_partita_iva",
    "has_ritenuta", "importo_ritenuta", "tipo_ritenuta", "company_name", "direction" }

InvoiceFields(fattura) == [k \in INVOICE_FIELDS |-> fattura[k]]

\* the fields of the invoice parsed from each file (those that parse)
PARSED_FIELDS ==
  [f \in {g \in FileIds : PARSED[g].tag = "Fattura"} |-> InvoiceFields(PARSED[f])]

\* the complete structured records of the archive written while the i-th
\* file was processed
RecordsOf(i) ==
  UNION { { archive[key].json[b].data :
              b \in {c \in DOMAIN archive[key].json :
                       /\ archive[key].json[c].complete
                       /\ archive[key].json[c].data.id = i} } :
          key \in DOMAIN archive }

ParsedOk(f) ==
  CASE program = "v3" -> EXTRACTED[f].method # "FAILED" /\ PARSED[f].tag # "None"
    [] program = "v8" ->
         /\ V8_EXTRACTED[f].success
         /\ FILE_TYPE[f] = "INVOICE" => V8_INVOICE[f].tag # "None"
         /\ FILE_TYPE[f] = "NOTIFICATION" => V8_NOTIFICATION[f].status = "OK"
    [] OTHER -> FALSE

\* the call of check-and-register for the file registered its fingerprint
Registered(r) == r.dup_called /\ ~r.is_duplicate

\* C25: the steps of a file run in the order Classify, Decode, Parse, Dedup
\* check-and-register, Archive: a fingerprint is registered only for a file
\* whose document was decoded and parsed successfully, and no file is
\* archived whose fingerprint the dedup step did not register before
C25_RegisterAfterParseBeforeArchive ==
  program \in {"v3", "v8"} =>
    \A i \in Indices :
      /\ Registered(results[i]) => ParsedOk(results[i].file)
      /\ (ArchiveExecuted(results[i]) /\ gestione_duplicati_avanzata)
           => Registered(results[i])

\* ------------------------------------------------------------------------
\* update_prima_nota run by several workers
\* ------------------------------------------------------------------------

\* the number of workers that run update_prima_nota at the same time
MaxWorkers == 2
Workers == 1..MaxWorkers

\* the files save_organized_files is called for: those parsed as an invoice
\* of the portfolio
LedgerFiles == {f \in FileIds : PARSED[f].tag = "Fattura"}

\* the `result` dict save_organized_files hands to update_prima_nota
InvoiceDataOf(f, id) ==
  InvoiceRecord(f, PARSED[f], EXTRACTED[f].method, [metadata |-> {}, notifications |-> {}], id)

\* lines 431-447: the ledger read from disk, or a new one
LoadPrimaNota(pn, key) == IF key \in DOMAIN pn THEN pn[key].data ELSE NewPrimaNota(key)

\* the entry replaces the list instead of being appended to it
AppendInvoiceReplacing(ledger, invoice_data, now) ==
  LET invoices == << [ id |-> invoice_data.id,
                       invoice_number |-> invoice_data.invoiceNumber,
                       invoice_date |-> invoice_data.invoiceDate,
                       partner_name |-> invoice_data.partner_name,
                       total_amount |-> invoice_data.totalAmount,
                       has_ritenuta |-> invoice_data.has_ritenuta,
                       importo_ritenuta |-> invoice_data.importo_ritenuta,
                       added_at |-> now ] >>
  IN  [ledger EXCEPT !.invoices = invoices, !.summary = Summary(invoices, now)]

\* lines 449-469: the entry appended and the summary recomputed
AppendInvoice(ledger, invoice_data, now) ==
  LET entry == [ id |-> invoice_data.id,
                 invoice_number |-> invoice_data.invoiceNumber,
                 invoice_date |-> invoice_data.invoiceDate,
                 partner_name |-> invoice_data.partner_name,
                 total_amount |-> invoice_data.totalAmount,
                 has_ritenuta |-> invoice_data.has_ritenuta,
                 importo_ritenuta |-> invoice_data.importo_ritenuta,
                 added_at |-> now ]
      invoices == Append(ledger.invoices, entry)
  IN  [ledger EXCEPT !.invoices = invoices, !.summary = Summary(invoices, now)]

\* worker w is between its read of the ledger file and its write
InUpdate(w) == workers[w].pc \in {"append", "write"}

\* every worker is about to call update_prima_nota for an invoice of its
\* own; call.exclusion tells whether the calls for one key exclude each other
InitLedger ==
  /\ NoBatch
  /\ program = "v3"
  /\ run = 1
  /\ \E excl \in BOOLEAN : call = [fn |-> "update_prima_nota", exclusion |-> excl]
  /\ \E fs \in [Workers -> LedgerFiles] :
       /\ \A v, w \in Workers : v # w => fs[v] # fs[w]
       /\ workers = [w \in Workers |->
                       [pc |-> "load", key |-> KeyOf(PARSED[fs[w]]),
                        invoice_data |-> InvoiceDataOf(fs[w], w), prima_nota |-> NoneResult]]

ledger_frame == <<program, gestione_duplicati_avanzata, input_dir, pc, invoice_files, results,
                  processed_invoices_db, duplicate_manager, archive, archivio_input,
                  failures, run, call>>

\* lines 431-447: the worker reads the ledger of its key
LedgerLoad(w) ==
  /\ call.fn = "update_prima_nota" /\ workers[w].pc = "load"
  /\ call.exclusion =>
       \A v \in Workers \ {w} : ~(InUpdate(v) /\ workers[v].key = workers[w].key)
  /\ workers' = [workers EXCEPT ![w].pc = "append",
                                ![w].prima_nota = LoadPrimaNota(prima_nota, workers[w].key)]
  /\ UNCHANGED <<ledger_frame, prima_nota, clock>>

\* lines 449-469: the worker appends its entry to the ledger it read
LedgerAppend(w) ==
  /\ call.fn = "update_prima_nota" /\ workers[w].pc = "append"
  /\ workers' = [workers EXCEPT ![w].pc = "write",
                                ![w].prima_nota = AppendInvoice(workers[w].prima_nota,
                                                                workers[w].invoice_data, clock)]
  /\ clock' = clock + 1
  /\ UNCHANGED <<ledger_frame, prima_nota>>

\* lines 471-472: the worker writes the ledger back
LedgerWrite(w) ==
  /\ call.fn = "update_prima_nota" /\ workers[w].pc = "write"
  /\ prima_nota' = Put(prima_nota, workers[w].key, Complete(workers[w].prima_nota))
  /\ workers' = [workers EXCEPT ![w].pc = "done"]
  /\ UNCHANGED <<ledger_frame, clock>>

NextLedger == \E w \in Workers : LedgerLoad(w) \/ LedgerAppend(w) \/ LedgerWrite(w)

SpecLedger == InitLedger /\ [][NextLedger]_vars

\* the ledger of the worker's key holds the entry of the worker's invoice
EntryPresent(w) ==
  /\ workers[w].key \in DOMAIN prima_nota
  /\ \E n \in DOMAIN prima_nota[workers[w].key].data.invoices :
       prima_nota[workers[w].key].data.invoices[n].id = workers[w].invoice_data.id

\* C26: with a per-key exclusion around load-append-recompute-write, the
\* entry of every worker that completed the update is in the ledger of its
\* key; without it two workers of one key can both complete and leave one
\* entry only (the lost update is the state C26_Witness describes)
C26_ExclusionKeepsEveryEntry ==
  (call.fn = "update_prima_nota" /\ call.exclusion) =>
    \A w \in Workers : workers[w].pc = "done" => EntryPresent(w)

\* no exclusion: both workers of one key are done and one entry is lost
C26_Witness ==
  /\ call.fn = "update_prima_nota" /\ ~call.exclusion
  /\ \A w \in Workers : workers[w].pc = "done"
  /\ \E v, w \in Workers :
       /\ v # w /\ workers[v].key = workers[w].key
       /\ EntryPresent(v) /\ ~EntryPresent(w)

\* with the exclusion: both workers of one key are done, both entries kept
C26_ExclusionCase ==
  /\ call.fn = "update_prima_nota" /\ call.exclusion
  /\ \E v, w \in Workers :
       /\ v # w /\ workers[v].key = workers[w].key
       /\ workers[v].pc = "done" /\ workers[w].pc = "done"
       /\ EntryPresent(v) /\ EntryPresent(w)

\* ------------------------------------------------------------------------
\* is_duplicate run by several workers
\* ------------------------------------------------------------------------

\* the files the pipeline of the program calls is_duplicate for
DedupFiles(prog) ==
  IF prog = "v3" THEN LedgerFiles
  ELSE {f \in FileIds : FILE_TYPE[f] # "UNSUPPORTED" /\ V8_EXTRACTED[f].success}

\* every worker is about to call is_duplicate for a file of its own
InitDedup ==
  /\ NoBatch
  /\ program \in {"v3", "v8"}
  /\ run = 1
  /\ call = [fn |-> "is_duplicate"]
  /\ \E fs \in [Workers -> DedupFiles(program)] :
       /\ \A v, w \in Workers : v # w => fs[v] # fs[w]
       /\ workers = [w \in Workers |-> [pc |-> "check", file |-> fs[w], ret |-> "pending"]]

dedup_frame == <<program, gestione_duplicati_avanzata, input_dir, pc, invoice_files, results,
                 archive, prima_nota, archivio_input, failures, run, call>>

\* v3 line 306 / v8 line 828: is the key in the index?
DedupCheck(w) ==
  /\ call.fn = "is_duplicate" /\ workers[w].pc = "check"
  /\ workers' =
       IF Fingerprint(workers[w].file) \in DOMAIN DedupIndex
         THEN [workers EXCEPT ![w].pc = "done", ![w].ret = "duplicate"]
         ELSE [workers EXCEPT ![w].pc = IF program = "v8" THEN "check_content" ELSE "register"]
  /\ UNCHANGED <<dedup_frame, processed_invoices_db, duplicate_manager, clock>>

\* v8 line 832: is the content hash in content_hashes?
DedupCheckContent(w) ==
  /\ call.fn = "is_duplicate" /\ workers[w].pc = "check_content"
  /\ workers' =
       IF calculate_content_hash(V8_EXTRACTED[workers[w].file].xml)
            \in duplicate_manager.content_hashes
         THEN [workers EXCEPT ![w].pc = "done", ![w].ret = "duplicate"]
         ELSE [workers EXCEPT ![w].pc = "register"]
  /\ UNCHANGED <<dedup_frame, processed_invoices_db, duplicate_manager, clock>>

\* v3 lines 309-310 / v8 lines 836-845: the key is stored, False returned
DedupRegister(w) ==
  /\ call.fn = "is_duplicate" /\ workers[w].pc = "register"
  /\ LET f == workers[w].file IN
     IF program = "v3"
       THEN /\ processed_invoices_db' =
                 Put(processed_invoices_db, FINGERPRINT_V3[f],
                     [file |-> NameOf(f), processed_at |-> clock])
            /\ UNCHANGED duplicate_manager
       ELSE /\ duplicate_manager' =
                 [ processed_files |->
                     Put(duplicate_manager.processed_files, FINGERPRINT_V8[f],
                         [file_path |-> f, content_hash |-> FINGERPRINT_V8[f][2],
                          processed_at |-> clock]),
                   content_hashes |->
                     duplicate_manager.content_hashes \cup {FINGERPRINT_V8[f][2]} ]
            /\ UNCHANGED processed_invoices_db
  /\ workers' = [workers EXCEPT ![w].pc = "done", ![w].ret = "not_duplicate"]
  /\ clock' = clock + 1
  /\ UNCHANGED dedup_frame

NextDedup ==
  \E w \in Workers : DedupCheck(w) \/ DedupCheckContent(w) \/ DedupRegister(w)

SpecDedup == InitDedup /\ [][NextDedup]_vars

\* C27: check-and-register is atomic: of the workers that called
\* is_duplicate with one fingerprint and returned, exactly one was told
\* not-duplicate
C27_CheckAndRegisterAtomic ==
  call.fn = "is_duplicate" =>
    \A v, w \in Workers :
      ( /\ v # w
        /\ workers[v].pc = "done" /\ workers[w].pc = "done"
        /\ Fingerprint(workers[v].file) = Fingerprint(workers[w].file) )
      => (workers[v].ret = "not_duplicate") # (workers[w].ret = "not_duplicate")

\* ------------------------------------------------------------------------
\* The script run again on the same archive
\* ------------------------------------------------------------------------

\* the number of runs of the script on one archive
MaxRuns == 2

\* the input folder of the first run: at most MaxRerunInput of these files
\* (an invoice, a byte-identical copy of it, an invoice of another
\* direction, a signed invoice, a file that does not parse, a notification)
MaxRerunInput == 2
RerunFiles == {"f01", "f02", "f04", "f07", "f08", "f11"}

\* the index of the previous process survives into the new one
processed_invoices_db_kept(old) == old

\* processor_v3 line 122: the module-level dict of a new process
processed_invoices_db_new(old) == <<>>

\* v8 lines 814-816: AdvancedDuplicateManager.__init__
duplicate_manager_new == [processed_files |-> <<>>, content_hashes |-> {}]

\* the first run of v3 or v8; no filesystem failure is injected in these
\* runs.  call.archived: file, directory and time of every archive
\* write of the earlier runs; call.started_at: the clock when the run began
InitRerun ==
  /\ program \in {"v3", "v8"}
  /\ gestione_duplicati_avanzata \in IF program = "v8" THEN BOOLEAN ELSE {TRUE}
  /\ input_dir \in {S \in SUBSET RerunFiles : Cardinality(S) <= MaxRerunInput}
  /\ pc = "scan"
  /\ invoice_files = <<>>
  /\ results = <<>>
  /\ processed_invoices_db = processed_invoices_db_new(<<>>)
  /\ duplicate_manager = duplicate_manager_new
  /\ archive = <<>>
  /\ prima_nota = <<>>
  /\ archivio_input = {}
  /\ clock = 1
  /\ failures = MaxFailures
  /\ run = 1
  /\ workers = <<>>
  /\ call = [fn |-> "main", archived |-> {}, started_at |-> 1]

\* the archive writes of the run that has just ended
ArchivedThisRun ==
  { [ file |-> results[i].file,
      key |-> IF program = "v3"
                THEN <<results[i].company_name, results[i].direction, results[i].invoice_year>>
                ELSE <<>>,
      at |-> call.started_at + i - 1 ] :
      i \in {j \in Indices : results[j].status = "OK" /\ ArchiveExecuted(results[j])} }

\* the script is started again: a new process, the archive and the ledgers
\* as the previous run left them; files already moved to ARCHIVE_DIR may be
\* put into the input folder again
StartRun ==
  /\ call.fn = "main" /\ pc = "done" /\ run < MaxRuns
  /\ run' = run + 1
  /\ pc' = "scan"
  /\ results' = <<>>
  /\ invoice_files' = <<>>
  /\ processed_invoices_db' = processed_invoices_db_new(processed_invoices_db)
  /\ duplicate_manager' = duplicate_manager_new
  /\ \E again \in SUBSET archivio_input : input_dir' = input_dir \cup again
  /\ call' = [call EXCEPT !.archived = @ \cup ArchivedThisRun, !.started_at = clock]
  /\ UNCHANGED <<program, gestione_duplicati_avanzata, archive, prima_nota, archivio_input,
                 clock, failures, workers>>

NextRerun ==
  \/ V3Scan \/ V3ProcessNext \/ V3Report
  \/ V8Glob \/ V8ProcessNext \/ V8Return
  \/ StartRun

SpecRerun == InitRerun /\ [][NextRerun]_vars

\* the index of the program holds nothing
IndexEmpty ==
  /\ processed_invoices_db = <<>>
  /\ duplicate_manager = [processed_files |-> <<>>, content_hashes |-> {}]

\* the dedup step of the program takes f and g for the same document
SameForIndex(f, g) ==
  IF program = "v8" THEN FINGERPRINT_V8[f][2] = FINGERPRINT_V8[g][2]
  ELSE FINGERPRINT_V3[f] = FINGERPRINT_V3[g]

\* the i-th file of this run was archived by an earlier run and is the
\* first of its document in this run
PresentedAgain(i) ==
  /\ \E a \in call.archived : a.file = results[i].file
  /\ \A j \in 1..(i - 1) : ~SameForIndex(results[j].file, results[i].file)

\* C28: the index is empty when a run starts, whatever the archive holds;
\* a document archived by an earlier run and presented again is reported
\* not-duplicate and archived again, and (processor_v3, the program that
\* keeps ledgers) the ledger of its key then holds the entry of the earlier
\* run and a second entry for the same fingerprint
C28_IndexResetsEveryRun ==
  call.fn = "main" =>
    /\ pc = "scan" => IndexEmpty
    /\ \A i \in Indices :
         PresentedAgain(i) =>
           /\ results[i].status = "OK" /\ ArchiveExecuted(results[i])
           /\ ~results[i].is_duplicate
           /\ program = "v3" =>
                \A a \in call.archived :
                  a.file = results[i].file
                    => /\ LedgerHasEntry(a.key, a.at)
                       /\ LedgerHasEntry(a.key, call.started_at + i - 1)

C28_Witness ==
  /\ call.fn = "main" /\ program = "v3" /\ run = 2
  /\ archive # <<>>
  /\ \E i \in Indices :
       /\ PresentedAgain(i)
       /\ \E a \in call.archived :
            /\ a.file = results[i].file
            /\ LedgerHasEntry(a.key, a.at)
            /\ LedgerHasEntry(a.key, call.started_at + i - 1)
            /\ a.at # call.started_at + i - 1

\* ------------------------------------------------------------------------
\* What a duplicate verdict rests on
\* ------------------------------------------------------------------------

\* the i-th file was archived: the archive step ran and the outcome is OK
SuccessfullyArchived(i) == results[i].status = "OK" /\ ArchiveExecuted(results[i])

\* C29: a file is skipped as duplicate only if an earlier file of the run
\* with the same fingerprint was successfully archived: a fingerprint whose
\* archive write failed, or whose document was never archived, never makes
\* a later file a duplicate
C29_DuplicateOnlyOfArchived ==
  program \in {"v3", "v8"} =>
    \A j \in Indices :
      results[j].is_duplicate =>
        \E i \in 1..(j - 1) :
          /\ SameForIndex(results[i].file, results[j].file)
          /\ SuccessfullyArchived(i)

\* ------------------------------------------------------------------------
\* xml_fatture_processor_v8: divide_in_trimestri
\* ------------------------------------------------------------------------

\* the dates handed to divide_in_trimestri: the first, the 15th and the
\* last day of every month of MaxYears years from the leap year 2024 on
MaxYears == 2
TrimestriYears == 2024..(2023 + MaxYears)

Date(y, m, d) == [year |-> y, month |-> m, day |-> d]

TrimestriDates ==
  UNION { { Date(y, m, d) : d \in {1, 15, DaysInMonth(y, m)} } :
            y \in TrimestriYears, m \in 1..12 }

DigitChar == <<"0", "1", "2", "3", "4", "5", "6", "7", "8", "9">>

\* datetime.strftime("%d%m%Y") for a year of four digits
strftime_dmY(d) ==
  << DigitChar[(d.day \div 10) + 1], DigitChar[(d.day % 10) + 1],
     DigitChar[(d.month \div 10) + 1], DigitChar[(d.month % 10) + 1],
     DigitChar[(d.year \div 1000) + 1], DigitChar[((d.year \div 100) % 10) + 1],
     DigitChar[((d.year \div 10) % 10) + 1], DigitChar[(d.year % 10) + 1] >>

\* datetime.strptime(t, "%d%m%Y") on a text it accepts
strptime_dmY(t) ==
  LET kd == TakeDay(t)
      r == SubSeq(t, kd + 1, Len(t))
      km == TakeMonth(r)
  IN  Date(NumberOf(SubSeq(r, km + 1, Len(r))), NumberOf(SubSeq(r, 1, km)),
           NumberOf(SubSeq(t, 1, kd)))

\* d <= e on datetimes
DateLE(d, e) ==
  \/ d.year < e.year
  \/ d.year = e.year /\ d.month < e.month
  \/ d.year = e.year /\ d.month = e.month /\ d.day <= e.day

\* d + timedelta(days=1)
NextDay(d) ==
  IF d.day < DaysInMonth(d.year, d.month) THEN Date(d.year, d.month, d.day + 1)
  ELSE IF d.month < 12 THEN Date(d.year, d.month + 1, 1)
  ELSE Date(d.year + 1, 1, 1)

\* every date is moved to the end of its year
aggiusta_fine_anno(d) == Date(d.year, 12, 31)

\* lines 330-338: the last day of the quarter of d
aggiusta_fine_trimestre(d) ==
  IF d.month < 4 THEN Date(d.year, 3, 31)
  ELSE IF d.month < 7 THEN Date(d.year, 6, 30)
  ELSE IF d.month < 10 THEN Date(d.year, 9, 30)
  ELSE Date(d.year, 12, 31)

InitTrimestri ==
  /\ NoBatch
  /\ program = "v8"
  /\ run = 1
  /\ workers = <<>>
  /\ call \in { [ fn |-> "divide_in_trimestri", pc |-> "parse",
                   data_iniziale |-> strftime_dmY(a), data_finale |-> strftime_dmY(b),
                   d1 |-> NoneResult, d2 |-> NoneResult, trimestri |-> <<>> ] :
                 a, b \in TrimestriDates }

\* lines 340-342: the two texts are parsed
TrimestriParse ==
  /\ call.fn = "divide_in_trimestri" /\ call.pc = "parse"
  /\ call' = [call EXCEPT !.pc = "loop",
                          !.d1 = strptime_dmY(call.data_iniziale),
                          !.d2 = strptime_dmY(call.data_finale),
                          !.trimestri = <<>>]
  /\ UNCHANGED <<batch_state, run, workers>>

\* lines 344-351: one iteration of the while loop
TrimestriLoop ==
  /\ call.fn = "divide_in_trimestri" /\ call.pc = "loop"
  /\ DateLE(call.d1, call.d2)
  /\ LET fine_trimestre == aggiusta_fine_trimestre(call.d1) IN
     IF DateLE(call.d2, fine_trimestre)
       THEN call' = [call EXCEPT !.pc = "return",
                                 !.trimestri = Append(@, <<strftime_dmY(call.d1),
                                                           strftime_dmY(call.d2)>>)]
       ELSE call' = [call EXCEPT !.d1 = NextDay(fine_trimestre),
                                 !.trimestri = Append(@, <<strftime_dmY(call.d1),
                                                           strftime_dmY(fine_trimestre)>>)]
  /\ UNCHANGED <<batch_state, run, workers>>

\* line 344: the loop condition is false
TrimestriExit ==
  /\ call.fn = "divide_in_trimestri" /\ call.pc = "loop"
  /\ ~DateLE(call.d1, call.d2)
  /\ call' = [call EXCEPT !.pc = "return"]
  /\ UNCHANGED <<batch_state, run, workers>>

\* line 353: return trimestri
TrimestriReturn ==
  /\ call.fn = "divide_in_trimestri" /\ call.pc = "return"
  /\ call' = [call EXCEPT !.pc = "returned"]
  /\ UNCHANGED <<batch_state, run, workers>>

NextTrimestri == TrimestriParse \/ TrimestriLoop \/ TrimestriExit \/ TrimestriReturn

\* the call runs on a thread of its own: it takes a step whenever it can
SpecTrimestri == InitTrimestri /\ [][NextTrimestri]_vars /\ WF_vars(NextTrimestri)

Returned == call.fn = "divide_in_trimestri" /\ call.pc = "returned"

\* the calendar quarter of a date
QuarterOf(d) == <<d.year, (d.month - 1) \div 3>>

\* the returned list read as intervals of dates
IntervalsOf(trimestri) ==
  [k \in 1..Len(trimestri) |->
     [from |-> strptime_dmY(trimestri[k][1]), to |-> strptime_dmY(trimestri[k][2])]]

\* the returned intervals partition [start, end] by quarters
PartitionsByQuarter(start, end, iv) ==
  IF DateLE(start, end)
    THEN /\ Len(iv) >= 1
         /\ iv[1].from = start
         /\ iv[Len(iv)].to = end
         /\ \A k \in 1..(Len(iv) - 1) : iv[k + 1].from = NextDay(iv[k].to)
         /\ \A k \in 1..Len(iv) :
              DateLE(iv[k].from, iv[k].to) /\ QuarterOf(iv[k].from) = QuarterOf(iv[k].to)
    ELSE iv = <<>>

\* C30: divide_in_trimestri returns for every pair of valid dates, and what
\* it returns partitions [start, end] into consecutive intervals, each
\* within one calendar quarter, the first beginning at start and the last
\* ending at end; the empty list when start > end
C30_TrimestriTerminatesAndPartitions ==
  /\ <>Returned
  /\ [](Returned =>
          PartitionsByQuarter(strptime_dmY(call.data_iniziale),
                              strptime_dmY(call.data_finale),
                              IntervalsOf(call.trimestri)))

\* a range over a year end returned as five intervals or more
C30_Witness ==
  /\ Returned
  /\ Len(call.trimestri) >= 5
  /\ call.trimestri[1][1] # call.trimestri[1][2]
  /\ strptime_dmY(call.data_iniziale).year < strptime_dmY(call.data_finale).year
====
